---- MODULE Spec2Model ----
(***************************************************************************)
(* A model of the sandboxed filesystem service (rust-mcp-filesystem):      *)
(* the path guard (validate_path), the edit engine (apply_file_edits),     *)
(* the archive engine (zip_files, zip_directory, unzip_file) and the tool  *)
(* dispatcher with its read-only gate (handle_call_tool_request).          *)
(*                                                                         *)
(* A path is a sequence of components; a text or a file name is a sequence *)
(* of one-character strings.  The filesystem is a function from physical   *)
(* (canonical, absolute) paths to nodes.  tasks holds the calls that are   *)
(* in flight where calls are taken to overlap; elsewhere a call is one     *)
(* step and tasks stays empty.                                             *)
(***************************************************************************)
EXTENDS Integers, Sequences, FiniteSets, TLC

VARIABLES fs, allowed_path, readonly, hist, tasks

vars == <<fs, allowed_path, readonly, hist, tasks>>

(***************************************************************************)
(* Bounds of the model.                                                    *)
(***************************************************************************)
MaxPathLen == 3

MaxEdits == 2

MaxCalls == 2

MaxFiles == 2

(***************************************************************************)
(* Generic helpers on sequences.                                           *)
(***************************************************************************)
SeqsUpTo(S, n) == UNION {[1..k -> S] : k \in 0..n}

Front(s) == SubSeq(s, 1, Len(s) - 1)

Last(s) == s[Len(s)]

IsPrefix(p, s) == Len(p) <= Len(s) /\ SubSeq(s, 1, Len(p)) = p

Range(s) == {s[i] : i \in 1..Len(s)}

(***************************************************************************)
(* Filesystem nodes.  A regular file carries its bytes in data; a zip      *)
(* archive is a regular file whose bytes decode to the entries it stores.  *)
(***************************************************************************)
DirNode == [kind |-> "dir", data |-> <<>>, entries |-> <<>>, target |-> <<>>]

FileNode(d) == [kind |-> "file", data |-> d, entries |-> <<>>, target |-> <<>>]

ZipNode(es) == [kind |-> "zip", data |-> <<>>, entries |-> es, target |-> <<>>]

LinkNode(t) == [kind |-> "link", data |-> <<>>, entries |-> <<>>, target |-> t]

IsRegular(n) == n.kind \in {"file", "zip"}

(***************************************************************************)
(* The process environment: the user's home and the working directory.     *)
(***************************************************************************)
Home == <<"h">>

Cwd == <<"s", "d">>

(***************************************************************************)
(* Paths.  A requested path is [abs, comps]; comps may hold ".", ".." and  *)
(* "~".  DropCurDir drops the "." components, as Path::components does for *)
(* every "." that is not the first component of a relative path, and the   *)
(* empty names a repeated or trailing separator leaves ("/s/d/" has the    *)
(* names s, d and an empty one).                                           *)
(***************************************************************************)
RECURSIVE DropCurDir(_)
DropCurDir(c) ==
    IF c = <<>> THEN <<>>
    ELSE IF Head(c) \in {".", ""} THEN DropCurDir(Tail(c))
    ELSE <<Head(c)>> \o DropCurDir(Tail(c))

\* The characters of a path: each component after a separator.  The name
\* sx is the one name of the model that has another name, s, as a prefix.
RECURSIVE PathChars(_)
PathChars(comps) ==
    IF comps = <<>> THEN <<>>
    ELSE <<"/">> \o (IF Head(comps) = "sx" THEN <<"s", "x">> ELSE <<Head(comps)>>)
             \o PathChars(Tail(comps))

\* A comparison of the paths' strings, as str::starts_with makes it.
starts_with_Chars(path, base) == IsPrefix(PathChars(base), PathChars(path))

\* Path::starts_with: whole components are compared, never characters.
starts_with(path, base) == IsPrefix(base, path)

Parent(loc) == IF loc = <<>> THEN <<>> ELSE Front(loc)

(***************************************************************************)
(* Path resolution by the operating system.  Walk resolves components from *)
(* a physical location: ".." goes to the physical parent, a symlink is     *)
(* replaced by its target, a missing component fails.                      *)
(***************************************************************************)
NoLoc == [ok |-> FALSE, path |-> <<>>]

RECURSIVE Walk(_, _, _)
Walk(f, cur, rest) ==
    IF rest = <<>> THEN [ok |-> TRUE, path |-> cur]
    ELSE IF f[cur].kind # "dir" THEN NoLoc
    ELSE LET c == Head(rest)
             nxt == Append(cur, c)
         IN IF c = ".." THEN Walk(f, Parent(cur), Tail(rest))
            ELSE IF nxt \notin DOMAIN f THEN NoLoc
            ELSE IF f[nxt].kind = "link"
                 THEN IF f[nxt].target \in DOMAIN f
                      THEN Walk(f, f[nxt].target, Tail(rest))
                      ELSE NoLoc
            ELSE Walk(f, nxt, Tail(rest))

\* fs::canonicalize on an absolute path given by its components.
canonicalize(f, comps) == Walk(f, <<>>, DropCurDir(comps))

\* Path::exists
exists(f, comps) == canonicalize(f, comps).ok

\* Path::is_dir
is_dir(f, comps) ==
    LET r == canonicalize(f, comps) IN r.ok /\ f[r.path].kind = "dir"

\* fs::symlink_metadata(..).file_type().is_symlink(): the last component is
\* not followed.
is_symlink(f, comps) ==
    LET c == DropCurDir(comps) IN
    /\ c # <<>>
    /\ Last(c) # ".."
    /\ LET par == Walk(f, <<>>, Front(c)) IN
       /\ par.ok
       /\ Append(par.path, Last(c)) \in DOMAIN f
       /\ f[Append(par.path, Last(c))].kind = "link"

(***************************************************************************)
(* utils.rs                                                                *)
(***************************************************************************)
normalize_path(f, comps) ==
    LET r == canonicalize(f, comps) IN IF r.ok THEN r.path ELSE DropCurDir(comps)

\* The result is always absolute here: Home is.
expand_home(p) ==
    IF ~p.abs /\ p.comps # <<>> /\ Head(p.comps) = "~"
    THEN [abs |-> TRUE, comps |-> Home \o Tail(p.comps)]
    ELSE p

RECURSIVE SymlinkScan(_, _, _)
SymlinkScan(f, comps, k) ==
    IF k > Len(comps) THEN FALSE
    ELSE IF ~exists(f, SubSeq(comps, 1, k)) THEN FALSE
    ELSE IF is_symlink(f, SubSeq(comps, 1, k)) THEN TRUE
    ELSE SymlinkScan(f, comps, k + 1)

contains_symlink(f, comps) == SymlinkScan(f, DropCurDir(comps), 1)

(***************************************************************************)
(* FileSystemService::validate_path                                        *)
(***************************************************************************)
\* The absolute path, as the components Path::components yields for it.
absolute_path(p) ==
    LET e == expand_home(p) IN
    IF e.abs THEN DropCurDir(e.comps) ELSE DropCurDir(Cwd \o e.comps)

InAllowed(f, roots, comps) ==
    LET normalized_requested == normalize_path(f, comps) IN
    \E i \in 1..Len(roots) :
        \/ starts_with(normalized_requested, roots[i])
        \/ starts_with(normalized_requested, normalize_path(f, roots[i]))

validate_path(f, roots, p) ==
    LET a == absolute_path(p) IN
    IF InAllowed(f, roots, a)
    THEN [ok |-> TRUE, path |-> a, err |-> "", symlink |-> FALSE]
    ELSE [ok |-> FALSE, path |-> a, err |-> "AccessDenied",
          symlink |-> contains_symlink(f, a)]

(***************************************************************************)
(* Results of the service's operations: Ok(value) or an error kind.        *)
(***************************************************************************)
Ok(v) == [ok |-> TRUE, err |-> "", symlink |-> FALSE, value |-> v]

Err(kind) == [ok |-> FALSE, err |-> kind, symlink |-> FALSE, value |-> <<>>]

\* The error validate_path returned, passed on by the `?` operator.
Denied(v) == [ok |-> FALSE, err |-> v.err, symlink |-> v.symlink, value |-> <<>>]

(***************************************************************************)
(* Text.  A text is a sequence of one-character strings; the operators     *)
(* below are those of Rust's str that the edit engine uses.                *)
(***************************************************************************)
CR == "\r"

LF == "\n"

\* The backtick character (a string cannot hold it).
Backtick == "BACKTICK"

\* char::is_whitespace, on the characters of the model
is_whitespace(c) == c \in {" ", "\t", "\n", "\r"}

\* str::contains
contains(s, sub) ==
    \E i \in 1..(Len(s) - Len(sub) + 1) : SubSeq(s, i, i + Len(sub) - 1) = sub

\* str::find: the index of the leftmost occurrence (there is one)
find(s, sub) ==
    CHOOSE i \in 1..(Len(s) - Len(sub) + 1) :
        /\ SubSeq(s, i, i + Len(sub) - 1) = sub
        /\ \A j \in 1..(i - 1) : SubSeq(s, j, j + Len(sub) - 1) # sub

\* str::replace for a non-empty pattern: every occurrence, left to right
RECURSIVE replace(_, _, _)
replace(s, old, new) ==
    IF Len(s) < Len(old) THEN s
    ELSE IF SubSeq(s, 1, Len(old)) = old
         THEN new \o replace(SubSeq(s, Len(old) + 1, Len(s)), old, new)
    ELSE <<Head(s)>> \o replace(Tail(s), old, new)

\* A replacement of every occurrence.
replacen1_Every(s, old, new) == replace(s, old, new)

\* str::replacen(old, new, 1)
replacen1(s, old, new) ==
    IF ~contains(s, old) THEN s
    ELSE LET i == find(s, old) IN
         SubSeq(s, 1, i - 1) \o new \o SubSeq(s, i + Len(old), Len(s))

\* str::split('\n'): a text without separator is one line, also the empty text
RECURSIVE split(_, _)
split(s, sep) ==
    IF ~contains(s, <<sep>>) THEN <<s>>
    ELSE LET i == find(s, <<sep>>) IN
         <<SubSeq(s, 1, i - 1)>> \o split(SubSeq(s, i + 1, Len(s)), sep)

\* [String]::join
RECURSIVE join(_, _)
join(lines, sep) ==
    IF lines = <<>> THEN <<>>
    ELSE IF Len(lines) = 1 THEN lines[1]
    ELSE lines[1] \o <<sep>> \o join(Tail(lines), sep)

RECURSIVE trim_start(_)
trim_start(s) ==
    IF s # <<>> /\ is_whitespace(Head(s)) THEN trim_start(Tail(s)) ELSE s

RECURSIVE trim_end(_)
trim_end(s) ==
    IF s # <<>> /\ is_whitespace(Last(s)) THEN trim_end(Front(s)) ELSE s

trim(s) == trim_start(trim_end(s))

\* chars().take_while(|c| c.is_whitespace()).collect()
leading_whitespace(s) == SubSeq(s, 1, Len(s) - Len(trim_start(s)))

\* str::repeat
repeat(c, n) == [i \in 1..n |-> c]

\* utils.rs
normalize_line_endings(text) == replace(replace(text, <<CR, LF>>, <<LF>>), <<CR>>, <<LF>>)

\* A detection that looks for CRLF only after a lone CR.
detect_line_ending_CRFirst(text) ==
    IF contains(text, <<CR>>) THEN <<CR>>
    ELSE IF contains(text, <<CR, LF>>) THEN <<CR, LF>>
    ELSE <<LF>>

detect_line_ending(text) ==
    IF contains(text, <<CR, LF>>) THEN <<CR, LF>>
    ELSE IF contains(text, <<CR>>) THEN <<CR>>
    ELSE <<LF>>

(***************************************************************************)
(* Operating-system file access on an absolute path given by components.   *)
(***************************************************************************)
\* Where a create or write of the path lands: the parent is resolved, a
\* symlink in the last place is followed.
locate(f, comps) ==
    LET c == DropCurDir(comps) IN
    IF c = <<>> \/ Last(c) = ".." THEN Walk(f, <<>>, c)
    ELSE LET par == Walk(f, <<>>, Front(c)) IN
         IF ~par.ok \/ f[par.path].kind # "dir" THEN NoLoc
         ELSE LET loc == Append(par.path, Last(c)) IN
              IF loc \in DOMAIN f /\ f[loc].kind = "link"
              THEN [ok |-> f[loc].target \in DOMAIN f, path |-> f[loc].target]
              ELSE [ok |-> TRUE, path |-> loc]

\* Extends or overrides the filesystem at one location.
Put(f, loc, node) == [q \in DOMAIN f \cup {loc} |-> IF q = loc THEN node ELSE f[q]]

\* tokio::fs::read_to_string
read_to_string(f, comps) ==
    LET r == canonicalize(f, comps) IN
    IF ~r.ok THEN [ok |-> FALSE, err |-> "NotFound", data |-> <<>>]
    ELSE IF f[r.path].kind # "file" THEN [ok |-> FALSE, err |-> "Io", data |-> <<>>]
    ELSE [ok |-> TRUE, err |-> "", data |-> f[r.path].data]

\* tokio::fs::write and File::create followed by writing the node's bytes:
\* the file is created or truncated; a missing parent or a directory in the
\* way is an I/O error.
write(f, comps, node) ==
    LET l == locate(f, comps) IN
    IF ~l.ok THEN [ok |-> FALSE, fs |-> f]
    ELSE IF l.path \in DOMAIN f /\ f[l.path].kind = "dir" THEN [ok |-> FALSE, fs |-> f]
    ELSE [ok |-> TRUE, fs |-> Put(f, l.path, node)]

\* The path the operating system resolves a caller's path to (no home
\* expansion: that is validate_path's).
os_path(p) == IF p.abs THEN DropCurDir(p.comps) ELSE DropCurDir(Cwd \o p.comps)

(***************************************************************************)
(* FileSystemService::apply_file_edits                                     *)
(***************************************************************************)
\* The last window that matches, as a loop without its break finds.
Min_Last(S) == CHOOSE x \in S : \A y \in S : y <= x

Min(S) == CHOOSE x \in S : \A y \in S : x <= y

\* The body of the loop over the edits, for one edit: the new content, or
\* "nomatch", or "panic" when the window range 0..=len - len underflows.
apply_edit(modified_content, edit) ==
    LET normalized_old == normalize_line_endings(edit.old_text)
        normalized_new == normalize_line_endings(edit.new_text)
    IN
    IF contains(modified_content, normalized_old)
    THEN [st |-> "ok", content |-> replacen1(modified_content, normalized_old, normalized_new)]
    ELSE
    LET old_lines == split(trim_end(normalized_old), LF)
        content_lines == split(trim_end(modified_content), LF)
        is_match(i) ==
            \A j \in 1..Len(old_lines) :
                trim(old_lines[j]) = trim(content_lines[i + j - 1])
    IN
    IF Len(content_lines) < Len(old_lines)
    THEN [st |-> "panic", content |-> modified_content]
    ELSE
    LET matches == {i \in 1..(Len(content_lines) - Len(old_lines) + 1) : is_match(i)} IN
    IF matches = {} THEN [st |-> "nomatch", content |-> modified_content]
    ELSE
    LET i == Min(matches)
        original_indent == leading_whitespace(content_lines[i])
        indent_char == IF "\t" \in Range(original_indent) THEN "\t" ELSE " "
        lines == split(normalized_new, LF)
        new_line(j) ==
            IF j = 1 THEN original_indent \o trim_start(lines[j])
            ELSE LET old_indent == IF j <= Len(old_lines)
                                   THEN leading_whitespace(old_lines[j]) ELSE <<>>
                     new_indent == leading_whitespace(lines[j])
                     relative_indent == IF Len(new_indent) >= Len(old_indent)
                                        THEN Len(new_indent) - Len(old_indent) ELSE 0
                 IN original_indent \o repeat(indent_char, relative_indent)
                        \o trim_start(lines[j])
        new_lines == [j \in 1..Len(lines) |-> new_line(j)]
        spliced == SubSeq(content_lines, 1, i - 1) \o new_lines
                    \o SubSeq(content_lines, i + Len(old_lines), Len(content_lines))
    IN [st |-> "ok", content |-> join(spliced, LF)]

\* A loop that takes the edits from the end of the list.
RECURSIVE apply_edits_LastFirst(_, _, _)
apply_edits_LastFirst(modified_content, edits, attempted) ==
    IF edits = <<>>
    THEN [st |-> "ok", content |-> modified_content, attempted |-> attempted]
    ELSE LET r == apply_edit(modified_content, Last(edits)) IN
         IF r.st # "ok"
         THEN [st |-> r.st, content |-> modified_content, attempted |-> attempted + 1]
         ELSE apply_edits_LastFirst(r.content, Front(edits), attempted + 1)

\* The loop over the edits: it stops at the first edit that does not apply.
\* attempted counts the edits the loop reached.
RECURSIVE apply_edits(_, _, _)
apply_edits(modified_content, edits, attempted) ==
    IF edits = <<>>
    THEN [st |-> "ok", content |-> modified_content, attempted |-> attempted]
    ELSE LET r == apply_edit(modified_content, Head(edits)) IN
         IF r.st # "ok"
         THEN [st |-> r.st, content |-> modified_content, attempted |-> attempted + 1]
         ELSE apply_edits(r.content, Tail(edits), attempted + 1)

\* Path::display of an absolute path
RECURSIVE display(_)
display(comps) ==
    IF comps = <<>> THEN <<>> ELSE <<"/", Head(comps)>> \o display(Tail(comps))

\* create_unified_diff.  The diff is kept as its parts: the file name of
\* the Index line and, when the texts differ, the lines of both texts (with
\* the texts' few lines and a context radius of 4, the one hunk shows every
\* line of both).
create_unified_diff(original_content, new_content, filepath) ==
    LET normalized_original == normalize_line_endings(original_content)
        normalized_new == normalize_line_endings(new_content)
    IN [index |-> filepath,
        old |-> IF normalized_original = normalized_new THEN <<>>
                ELSE split(normalized_original, LF),
        new |-> IF normalized_original = normalized_new THEN <<>>
                ELSE split(normalized_new, LF)]

\* diff.contains(&"`".repeat(n))
diff_contains_backticks(diff, n) ==
    \/ contains(diff.index, repeat(Backtick, n))
    \/ \E k \in 1..Len(diff.old) : contains(diff.old[k], repeat(Backtick, n))
    \/ \E k \in 1..Len(diff.new) : contains(diff.new[k], repeat(Backtick, n))

\* One test of the diff where the code loops.
num_backticks_Once(diff, n) == IF diff_contains_backticks(diff, n) THEN n + 1 ELSE n

\* let mut num_backticks = 3; while diff.contains(..) { num_backticks += 1 }
RECURSIVE num_backticks(_, _)
num_backticks(diff, n) ==
    IF diff_contains_backticks(diff, n) THEN num_backticks(diff, n + 1) ELSE n

DefaultFence == 3

\* A flag that is read as absent.
is_dry_run_Ignored(dry_run) == FALSE

\* dry_run.unwrap_or(false)
is_dry_run(dry_run) == IF dry_run = <<>> THEN FALSE ELSE dry_run[1]

\* The end of apply_file_edits, from the diff on: e is what the loop over
\* the edits left.
finish_edits(f, valid_path, original_line_ending, content_str, edits, e, dry_run, save_to) ==
    IF e.st = "panic"
    THEN [fs |-> f, result |-> [Err("panic") EXCEPT !.value = <<e.attempted>>]]
    ELSE IF e.st = "nomatch"
    THEN [fs |-> f, result |-> [Err("NoMatch") EXCEPT
                                   !.value = <<e.attempted, edits[e.attempted].old_text>>]]
    ELSE
    LET diff == create_unified_diff(content_str, e.content, display(valid_path))
        fence == num_backticks(diff, DefaultFence)
        formatted_diff == [open |-> fence, diff |-> diff, close |-> fence]
    IN
    IF is_dry_run(dry_run) THEN [fs |-> f, result |-> Ok(formatted_diff)]
    ELSE
    LET target == IF save_to = <<>> THEN valid_path ELSE os_path(save_to[1])
        w == write(f, target, FileNode(replace(e.content, <<LF>>, original_line_ending)))
    IN IF w.ok THEN [fs |-> w.fs, result |-> Ok(formatted_diff)]
       ELSE [fs |-> f, result |-> Err("Io")]

\* The middle of apply_file_edits: the line ending is detected, the content
\* normalised and the edits applied to it.
edit_content(f, valid_path, content_str, original_line_ending, edits, dry_run, save_to) ==
    finish_edits(f, valid_path, original_line_ending, content_str, edits,
                 apply_edits(content_str, edits, 0), dry_run, save_to)

apply_file_edits(f, roots, file_path, edits, dry_run, save_to) ==
    LET valid == validate_path(f, roots, file_path) IN
    IF ~valid.ok THEN [fs |-> f, result |-> Denied(valid)]
    ELSE
    LET rd == read_to_string(f, valid.path) IN
    IF ~rd.ok THEN [fs |-> f, result |-> Err(rd.err)]
    ELSE edit_content(f, valid.path, normalize_line_endings(rd.data),
                      detect_line_ending(rd.data), edits, dry_run, save_to)

(***************************************************************************)
(* Path strings.  A path string is a sequence of tokens: "/" and names.    *)
(***************************************************************************)
\* Path::new(string): absolute iff the string starts with the separator.
parse_path(str) ==
    [abs |-> str # <<>> /\ Head(str) = "/",
     comps |-> SelectSeq(str, LAMBDA t : t # "/")]

\* PathBuf::join: an absolute argument replaces the base.
path_join(base, p) == IF p.abs THEN DropCurDir(p.comps) ELSE base \o DropCurDir(p.comps)

\* Path::file_name: none for the root and for a path that ends in "..".
has_file_name(comps) == comps # <<>> /\ Last(comps) # ".."

\* str::to_lowercase, on the letters of the model
to_lowercase(str) ==
    [i \in 1..Len(str) |->
        CASE str[i] = "A" -> "a" [] str[i] = "B" -> "b" [] OTHER -> str[i]]

(***************************************************************************)
(* glob::Pattern, for patterns of literal characters and `*`.  A run of    *)
(* two or more `*` is the recursive wildcard and must be a whole           *)
(* component; matching uses the default options, under which `*` also      *)
(* matches separators and letter case matters.                             *)
(***************************************************************************)
RECURSIVE StarRun(_, _)
StarRun(pat, i) == IF i <= Len(pat) /\ pat[i] = "*" THEN 1 + StarRun(pat, i + 1) ELSE 0

RECURSIVE glob_tokens(_, _)
glob_tokens(pat, i) ==
    IF i > Len(pat) THEN [ok |-> TRUE, tokens |-> <<>>]
    ELSE IF pat[i] # "*"
    THEN LET r == glob_tokens(pat, i + 1) IN
         [ok |-> r.ok, tokens |-> <<[t |-> "char", c |-> pat[i]]>> \o r.tokens]
    ELSE LET n == StarRun(pat, i)
             after == i + n
         IN IF n = 1
            THEN LET r == glob_tokens(pat, i + 1) IN
                 [ok |-> r.ok, tokens |-> <<[t |-> "any", c |-> "*"]>> \o r.tokens]
            ELSE IF (i = 1 \/ pat[i - 1] = "/") /\ (after > Len(pat) \/ pat[after] = "/")
            THEN LET r == glob_tokens(pat, IF after > Len(pat) THEN after ELSE after + 1) IN
                 [ok |-> r.ok, tokens |-> <<[t |-> "rec", c |-> "*"]>> \o r.tokens]
            ELSE [ok |-> FALSE, tokens |-> <<>>]

\* Pattern::new
Pattern_new(pat) == glob_tokens(pat, 1)

RECURSIVE matches_from(_, _, _, _)
matches_from(tokens, ti, file, fi) ==
    IF ti > Len(tokens) THEN fi > Len(file)
    ELSE IF tokens[ti].t = "any"
    THEN \E k \in fi..(Len(file) + 1) : matches_from(tokens, ti + 1, file, k)
    ELSE IF tokens[ti].t = "rec"
    THEN \/ matches_from(tokens, ti + 1, file, fi)
         \/ \E k \in fi..Len(file) :
               file[k] = "/" /\ matches_from(tokens, ti + 1, file, k + 1)
    ELSE /\ fi <= Len(file)
         /\ file[fi] = tokens[ti].c
         /\ matches_from(tokens, ti + 1, file, fi + 1)

\* Pattern::matches
glob_matches(tokens, str) == matches_from(tokens, 1, str, 1)

(***************************************************************************)
(* WalkDir::new(root).follow_links(true): the root and everything below    *)
(* it, each as the root's path extended by names; a symlink to a directory *)
(* is descended into unless it leads back to a directory being walked      *)
(* (that entry is an error and is dropped by the callers).                 *)
(***************************************************************************)
ChildNames(f, loc) ==
    {q[Len(q)] : q \in {r \in DOMAIN f : Len(r) = Len(loc) + 1 /\ IsPrefix(loc, r)}}

RECURSIVE walk_from(_, _, _, _)
walk_from(f, path, loc, ancestors) ==
    {path} \cup
    IF f[loc].kind # "dir" THEN {}
    ELSE UNION { LET r == Walk(f, loc, <<n>>) IN
                 IF ~r.ok \/ r.path \in ancestors \cup {loc} THEN {}
                 ELSE walk_from(f, Append(path, n), r.path, ancestors \cup {loc})
               : n \in ChildNames(f, loc) }

walk_dir(f, root) ==
    LET r == canonicalize(f, root) IN
    IF ~r.ok THEN {} ELSE walk_from(f, root, r.path, {})

\* A set of paths as a sequence: the order directories are read in is the
\* platform's; the model fixes one.
RECURSIVE SetToSeq(_)
SetToSeq(S) ==
    IF S = {} THEN <<>>
    ELSE LET x == CHOOSE y \in S : \A z \in S : Len(y) <= Len(z) IN
         <<x>> \o SetToSeq(S \ {x})

(***************************************************************************)
(* The archive engine.                                                     *)
(***************************************************************************)
\* std::fs::create_dir_all: every missing prefix becomes a directory; a
\* prefix that exists and is no directory is an error.
RECURSIVE create_dir_all_from(_, _, _)
create_dir_all_from(f, comps, k) ==
    IF k > Len(comps) THEN [ok |-> TRUE, fs |-> f]
    ELSE LET prefix == SubSeq(comps, 1, k)
             r == canonicalize(f, prefix)
         IN IF r.ok
            THEN IF f[r.path].kind = "dir" THEN create_dir_all_from(f, comps, k + 1)
                 ELSE [ok |-> FALSE, fs |-> f]
            ELSE LET l == locate(f, prefix) IN
                 IF ~l.ok THEN [ok |-> FALSE, fs |-> f]
                 ELSE create_dir_all_from(Put(f, l.path, DirNode), comps, k + 1)

\* fs::create_dir: one directory, which must not exist, in an existing parent.
create_dir(f, comps) ==
    IF canonicalize(f, DropCurDir(comps)).ok THEN [ok |-> FALSE, fs |-> f]
    ELSE LET l == locate(f, DropCurDir(comps)) IN
         IF ~l.ok THEN [ok |-> FALSE, fs |-> f]
         ELSE [ok |-> TRUE, fs |-> Put(f, l.path, DirNode)]

\* fs::create_dir_all
create_dir_all(f, comps) == create_dir_all_from(f, DropCurDir(comps), 1)

\* A file that was created for an archive whose writer was dropped before
\* close: the entries written so far, without the central directory.
PartialNode(es) ==
    IF es = <<>> THEN FileNode(<<>>)
    ELSE [kind |-> "partial", data |-> <<>>, entries |-> es, target |-> <<>>]

\* utils::write_zip_entry: the entry for a file name and the bytes of the
\* input file, or the error of opening or reading it.
write_zip_entry(f, filename, input_path) ==
    LET r == canonicalize(f, input_path) IN
    IF ~r.ok THEN [ok |-> FALSE, err |-> "NotFound", entry |-> <<>>]
    ELSE IF ~IsRegular(f[r.path]) /\ f[r.path].kind # "partial"
         THEN [ok |-> FALSE, err |-> "Io", entry |-> <<>>]
    ELSE [ok |-> TRUE, err |-> "", entry |-> [name |-> filename, node |-> f[r.path]]]

\* target_path.exists(), the check that refuses to overwrite
\* An existence check that is left out.
target_exists_Unchecked(f, target_path) == FALSE

target_exists(f, target_path) == exists(f, target_path)

\* The loop of zip_files over the validated sources, writing into the
\* archive file created at loc.
RECURSIVE zip_files_loop(_, _, _, _)
zip_files_loop(f, loc, source_paths, written) ==
    IF source_paths = <<>> THEN [ok |-> TRUE, err |-> "", fs |-> Put(f, loc, ZipNode(written))]
    ELSE LET path == Head(source_paths) IN
         IF ~has_file_name(path)
         THEN [ok |-> FALSE, err |-> "InvalidInput", fs |-> Put(f, loc, PartialNode(written))]
         ELSE LET w == write_zip_entry(Put(f, loc, PartialNode(written)), <<Last(path)>>, path) IN
              IF ~w.ok
              THEN [ok |-> FALSE, err |-> w.err, fs |-> Put(f, loc, PartialNode(written))]
              ELSE zip_files_loop(f, loc, Tail(source_paths), Append(written, w.entry))

RECURSIVE validate_all(_, _, _)
validate_all(f, roots, paths) ==
    IF paths = <<>> THEN [ok |-> TRUE, paths |-> <<>>, bad |-> <<>>]
    ELSE LET v == validate_path(f, roots, Head(paths)) IN
         IF ~v.ok THEN [ok |-> FALSE, paths |-> <<>>, bad |-> <<v>>]
         ELSE LET r == validate_all(f, roots, Tail(paths)) IN
              [ok |-> r.ok, paths |-> <<v.path>> \o r.paths, bad |-> r.bad]

zip_files(f, roots, input_files, target_zip_file) ==
    LET file_count == Len(input_files) IN
    IF file_count = 0 THEN [fs |-> f, result |-> Err("InvalidInput")]
    ELSE
    LET target == validate_path(f, roots, target_zip_file) IN
    IF ~target.ok THEN [fs |-> f, result |-> Denied(target)]
    ELSE IF target_exists(f, target.path) THEN [fs |-> f, result |-> Err("AlreadyExists")]
    ELSE
    LET sources == validate_all(f, roots, input_files) IN
    IF ~sources.ok THEN [fs |-> f, result |-> Denied(sources.bad[1])]
    ELSE
    LET created == write(f, target.path, FileNode(<<>>)) IN
    IF ~created.ok THEN [fs |-> f, result |-> Err("Io")]
    ELSE
    LET z == zip_files_loop(created.fs, locate(f, target.path).path, sources.paths, <<>>) IN
    IF ~z.ok THEN [fs |-> z.fs, result |-> Err(z.err)]
    ELSE [fs |-> z.fs, result |-> Ok([count |-> file_count, target |-> target.path])]

\* The loop of unzip_file over the entries of the archive.
RECURSIVE unzip_loop(_, _, _, _)
unzip_loop(f, target_dir_path, entries, index) ==
    IF index > Len(entries) THEN [ok |-> TRUE, fs |-> f]
    ELSE LET entry_path == path_join(target_dir_path, parse_path(entries[index].name))
             made == IF entry_path = <<>> THEN [ok |-> TRUE, fs |-> f]
                     ELSE create_dir_all(f, Front(entry_path))
         IN IF ~made.ok THEN [ok |-> FALSE, fs |-> made.fs]
            ELSE LET w == write(made.fs, entry_path, entries[index].node) IN
                 IF ~w.ok THEN [ok |-> FALSE, fs |-> made.fs]
                 ELSE unzip_loop(w.fs, target_dir_path, entries, index + 1)

unzip_file(f, roots, zip_file, target_dir) ==
    LET zip == validate_path(f, roots, zip_file) IN
    IF ~zip.ok THEN [fs |-> f, result |-> Denied(zip)]
    ELSE
    LET target == validate_path(f, roots, target_dir) IN
    IF ~target.ok THEN [fs |-> f, result |-> Denied(target)]
    ELSE IF ~exists(f, zip.path) THEN [fs |-> f, result |-> Err("NotFound")]
    ELSE IF target_exists(f, target.path) THEN [fs |-> f, result |-> Err("AlreadyExists")]
    ELSE
    LET archive == f[canonicalize(f, zip.path).path] IN
    IF archive.kind # "zip" THEN [fs |-> f, result |-> Err("Zip")]
    ELSE
    LET u == unzip_loop(f, target.path, archive.entries, 1) IN
    IF ~u.ok THEN [fs |-> u.fs, result |-> Err("Io")]
    ELSE [fs |-> u.fs,
          result |-> Ok([count |-> Len(archive.entries), target |-> target.path])]

\* The loop of zip_directory over the collected entries.
RECURSIVE zip_directory_loop(_, _, _, _, _)
zip_directory_loop(f, loc, input_dir_str, entries, written) ==
    IF entries = <<>> THEN [ok |-> TRUE, err |-> "", fs |-> Put(f, loc, ZipNode(written))]
    ELSE LET entry_path == Head(entries)
             entry_str == display(entry_path)
             now == Put(f, loc, PartialNode(written))
         IN IF is_dir(now, entry_path)
            THEN zip_directory_loop(f, loc, input_dir_str, Tail(entries), written)
            ELSE IF ~IsPrefix(input_dir_str, entry_str)
            THEN [ok |-> FALSE, err |-> "InvalidInput", fs |-> now]
            ELSE LET name == SubSeq(entry_str, Len(input_dir_str) + 2, Len(entry_str))
                     w == write_zip_entry(now, name, entry_path)
                 IN IF ~w.ok THEN [ok |-> FALSE, err |-> w.err, fs |-> now]
                    ELSE zip_directory_loop(f, loc, input_dir_str, Tail(entries),
                                            Append(written, w.entry))

\* valid_dir_path.as_os_str(): the string of the validated path.  It keeps
\* a trailing separator of the caller's string; a "." inside it is in the
\* strings of the walk's entries as well and is left out of both.
as_os_str(p) ==
    display(absolute_path(p))
        \o (IF p.comps # <<>> /\ Last(p.comps) = "" THEN <<"/">> ELSE <<>>)

zip_directory(f, roots, input_dir, pattern, target_zip_file) ==
    LET valid_dir == validate_path(f, roots, input_dir) IN
    IF ~valid_dir.ok THEN [fs |-> f, result |-> Denied(valid_dir)]
    ELSE
    LET input_dir_str == as_os_str(input_dir)
        target == validate_path(f, roots, target_zip_file)
    IN
    IF ~target.ok THEN [fs |-> f, result |-> Denied(target)]
    ELSE IF target_exists(f, target.path) THEN [fs |-> f, result |-> Err("AlreadyExists")]
    ELSE
    LET updated_pattern == IF "*" \in Range(pattern) THEN to_lowercase(pattern)
                           ELSE <<"*">> \o to_lowercase(pattern) \o <<"*">>
        glob_pattern == Pattern_new(updated_pattern)
    IN
    IF ~glob_pattern.ok THEN [fs |-> f, result |-> Err("GlobPattern")]
    ELSE
    LET entries ==
            {path \in {validate_path(f, roots, [abs |-> TRUE, comps |-> full_path]).path :
                           full_path \in {w \in walk_dir(f, valid_dir.path) :
                               validate_path(f, roots, [abs |-> TRUE, comps |-> w]).ok}} :
                /\ path # valid_dir.path
                /\ glob_matches(glob_pattern.tokens, display(path))}
        created == write(f, target.path, FileNode(<<>>))
    IN
    IF ~created.ok THEN [fs |-> f, result |-> Err("Io")]
    ELSE
    LET z == zip_directory_loop(created.fs, locate(f, target.path).path, input_dir_str,
                                SetToSeq(entries), <<>>)
    IN
    IF ~z.ok THEN [fs |-> z.fs, result |-> Err(z.err)]
    ELSE [fs |-> z.fs, result |-> Ok([count |-> Cardinality(entries), target |-> target.path])]

(***************************************************************************)
(* The remaining operations of FileSystemService.                          *)
(***************************************************************************)
\* fs::metadata: the size and the kind of what the path leads to.
get_file_stats(f, roots, file_path) ==
    LET valid_path == validate_path(f, roots, file_path) IN
    IF ~valid_path.ok THEN [fs |-> f, result |-> Denied(valid_path)]
    ELSE LET r == canonicalize(f, valid_path.path) IN
         IF ~r.ok THEN [fs |-> f, result |-> Err("NotFound")]
         ELSE [fs |-> f,
               result |-> Ok([size |-> Len(f[r.path].data),
                              is_directory |-> f[r.path].kind = "dir",
                              is_file |-> f[r.path].kind # "dir"])]

read_file(f, roots, file_path) ==
    LET valid_path == validate_path(f, roots, file_path) IN
    IF ~valid_path.ok THEN [fs |-> f, result |-> Denied(valid_path)]
    ELSE LET content == read_to_string(f, valid_path.path) IN
         IF ~content.ok THEN [fs |-> f, result |-> Err(content.err)]
         ELSE [fs |-> f, result |-> Ok(content.data)]

create_directory(f, roots, file_path) ==
    LET valid_path == validate_path(f, roots, file_path) IN
    IF ~valid_path.ok THEN [fs |-> f, result |-> Denied(valid_path)]
    ELSE LET r == create_dir_all(f, valid_path.path) IN
         IF ~r.ok THEN [fs |-> f, result |-> Err("Io")]
         ELSE [fs |-> r.fs, result |-> Ok(<<>>)]

\* The directory entry a path names: its last component is not followed.
entry_of(f, comps) ==
    LET c == DropCurDir(comps) IN
    IF c = <<>> \/ Last(c) = ".." THEN NoLoc
    ELSE LET par == Walk(f, <<>>, Front(c)) IN
         IF ~par.ok \/ f[par.path].kind # "dir" THEN NoLoc
         ELSE [ok |-> TRUE, path |-> Append(par.path, Last(c))]

\* tokio::fs::rename: the entry, with everything below it, gets the new
\* name; an existing file, or an existing empty directory when a directory
\* is moved, is replaced.
rename(f, from, to) ==
    LET a == entry_of(f, from)
        b == entry_of(f, to)
    IN
    IF ~a.ok \/ ~b.ok \/ a.path \notin DOMAIN f THEN [ok |-> FALSE, fs |-> f]
    ELSE IF a.path = b.path THEN [ok |-> TRUE, fs |-> f]
    ELSE IF IsPrefix(a.path, b.path) THEN [ok |-> FALSE, fs |-> f]
    ELSE IF /\ b.path \in DOMAIN f
            /\ \/ (f[b.path].kind = "dir") # (f[a.path].kind = "dir")
               \/ ChildNames(f, b.path) # {}
    THEN [ok |-> FALSE, fs |-> f]
    ELSE LET moved == {q \in DOMAIN f : IsPrefix(a.path, q)}
             dest(q) == b.path \o SubSeq(q, Len(a.path) + 1, Len(q))
             kept == (DOMAIN f \ moved) \ {b.path}
         IN [ok |-> TRUE,
             fs |-> [q \in kept \cup {dest(m) : m \in moved} |->
                        IF q \in kept THEN f[q]
                        ELSE f[CHOOSE m \in moved : dest(m) = q]]]

move_file(f, roots, src_path, dest_path) ==
    LET valid_src_path == validate_path(f, roots, src_path) IN
    IF ~valid_src_path.ok THEN [fs |-> f, result |-> Denied(valid_src_path)]
    ELSE
    LET valid_dest_path == validate_path(f, roots, dest_path) IN
    IF ~valid_dest_path.ok THEN [fs |-> f, result |-> Denied(valid_dest_path)]
    ELSE LET r == rename(f, valid_src_path.path, valid_dest_path.path) IN
         IF ~r.ok THEN [fs |-> f, result |-> Err("Io")]
         ELSE [fs |-> r.fs, result |-> Ok(<<>>)]

\* The entries of the directory, each with DirEntry::file_name and
\* whether DirEntry::path().is_dir().
list_directory(f, roots, dir_path) ==
    LET valid_path == validate_path(f, roots, dir_path) IN
    IF ~valid_path.ok THEN [fs |-> f, result |-> Denied(valid_path)]
    ELSE LET r == canonicalize(f, valid_path.path) IN
         IF ~r.ok THEN [fs |-> f, result |-> Err("NotFound")]
         ELSE IF f[r.path].kind # "dir" THEN [fs |-> f, result |-> Err("Io")]
         ELSE [fs |-> f,
               result |-> Ok({[file_name |-> n,
                               is_dir |-> is_dir(f, Append(valid_path.path, n))]
                              : n \in ChildNames(f, r.path)})]

write_file(f, roots, file_path, content) ==
    LET valid_path == validate_path(f, roots, file_path) IN
    IF ~valid_path.ok THEN [fs |-> f, result |-> Denied(valid_path)]
    ELSE LET r == write(f, valid_path.path, FileNode(content)) IN
         IF ~r.ok THEN [fs |-> f, result |-> Err("Io")]
         ELSE [fs |-> r.fs, result |-> Ok(<<>>)]

\* Path::strip_prefix(..).unwrap_or(full_path)
strip_prefix(full_path, base) ==
    IF starts_with(full_path, base)
    THEN SubSeq(full_path, Len(base) + 1, Len(full_path))
    ELSE full_path

\* A relative path as the string Path::to_str gives.
relative_str(comps) ==
    IF comps = <<>> THEN <<>>
    ELSE SubSeq(display(comps), 2, Len(display(comps)))

\* A predicate that tests the exclude patterns only.
search_keeps_Unvalidated(f, roots, root_path, exclude_patterns, full_path) ==
    LET relative_path == strip_prefix(full_path, root_path) IN
    ~ \E i \in 1..Len(exclude_patterns) :
         LET pat == exclude_patterns[i]
             glob_pattern == IF "*" \in Range(pat) THEN pat
                             ELSE <<"*">> \o pat \o <<"*">>
             glob == Pattern_new(glob_pattern)
         IN glob.ok /\ glob_matches(glob.tokens, relative_str(relative_path))

\* The predicate of filter_entry in search_files.
search_keeps(f, roots, root_path, exclude_patterns, full_path) ==
    /\ validate_path(f, roots, [abs |-> TRUE, comps |-> full_path]).ok
    /\ LET relative_path == strip_prefix(full_path, root_path) IN
       ~ \E i \in 1..Len(exclude_patterns) :
            LET pat == exclude_patterns[i]
                glob_pattern == IF "*" \in Range(pat) THEN pat
                                ELSE <<"*">> \o pat \o <<"*">>
                glob == Pattern_new(glob_pattern)
            IN glob.ok /\ glob_matches(glob.tokens, relative_str(relative_path))

\* WalkDir with follow_links and filter_entry: an entry the predicate
\* rejects is skipped, with everything below it.
RECURSIVE search_walk(_, _, _, _, _, _, _)
search_walk(f, roots, root_path, exclude_patterns, path, loc, ancestors) ==
    IF ~search_keeps(f, roots, root_path, exclude_patterns, path) THEN {}
    ELSE {path} \cup
         IF f[loc].kind # "dir" THEN {}
         ELSE UNION { LET r == Walk(f, loc, <<n>>) IN
                      IF ~r.ok \/ r.path \in ancestors \cup {loc} THEN {}
                      ELSE search_walk(f, roots, root_path, exclude_patterns,
                                       Append(path, n), r.path, ancestors \cup {loc})
                    : n \in ChildNames(f, loc) }

search_files(f, roots, root_path, pattern, exclude_patterns) ==
    LET valid_path == validate_path(f, roots, root_path) IN
    IF ~valid_path.ok THEN [fs |-> f, result |-> Denied(valid_path)]
    ELSE
    LET start == canonicalize(f, valid_path.path)
        result == IF ~start.ok THEN {}
                  ELSE search_walk(f, roots, os_path(root_path), exclude_patterns,
                                   valid_path.path, start.path, {})
        updated_pattern == IF "*" \in Range(pattern) THEN to_lowercase(pattern)
                           ELSE <<"*", "*", "/", "*">> \o to_lowercase(pattern) \o <<"*">>
        glob_pattern == Pattern_new(updated_pattern)
        final_result ==
            {entry \in result :
                /\ os_path(root_path) # entry
                /\ glob_pattern.ok
                /\ entry # <<>>
                /\ glob_matches(glob_pattern.tokens, to_lowercase(<<Last(entry)>>))}
    IN [fs |-> f, result |-> Ok(final_result)]

(***************************************************************************)
(* The tools and the server handler.  A call is a record of the tool's     *)
(* name (op) and its parameters.                                           *)
(***************************************************************************)
Tools ==
    { "read_file", "create_directory", "directory_tree", "edit_file", "get_file_info",
      "list_allowed_directories", "list_directory", "move_file", "read_multiple_files",
      "search_files", "write_file", "zip_files", "unzip_file", "zip_directory" }

\* A classification that takes edit_file for a reading tool.
require_write_access_EditReads(tool) ==
    tool \in { "create_directory", "move_file", "write_file",
               "zip_files", "unzip_file", "zip_directory" }

require_write_access(tool) ==
    CASE tool \in { "create_directory", "move_file", "write_file", "edit_file",
                    "zip_files", "unzip_file", "zip_directory" } -> TRUE
      [] tool \in { "read_file", "directory_tree", "get_file_info",
                    "list_allowed_directories", "list_directory", "read_multiple_files",
                    "search_files" } -> FALSE

\* MyServerHandler::new: the flag the handler keeps.
new(allow_write) == ~allow_write

assert_write_access(ro) == IF ro THEN Err("NoWriteAccess") ELSE Ok(<<>>)

\* ReadMultipleFilesTool: every path is read on its own and a failure is
\* reported in that path's place.
\* The async block of one path: the text of its slot.
read_block(f, roots, path) ==
    LET content == read_file(f, roots, path).result
        name == IF path.abs THEN display(path.comps) ELSE relative_str(path.comps)
    IN IF content.ok THEN name \o <<":", LF>> \o content.value \o <<LF>>
       ELSE name \o <<":", " ", "Error", " ", "-", " ", content.err>>

\* The outputs in the order the futures completed in.
join_all_Unordered(outputs, order) == [k \in 1..Len(order) |-> outputs[order[k]]]

\* futures::future::join_all: the futures complete in the order `order`,
\* and the output of each is stored at the index of its future.
join_all(outputs, order) ==
    [i \in 1..Len(outputs) |->
        outputs[order[CHOOSE k \in 1..Len(order) : order[k] = i]]]

\* ReadMultipleFilesTool::run_tool; contents.join("\n---\n") with the
\* separator as one token.
read_multiple_files(f, roots, paths, order) ==
    [fs |-> f,
     result |-> Ok(join(join_all([i \in 1..Len(paths) |-> read_block(f, roots, paths[i])],
                                 order),
                        "\n---\n"))]

\* DirectoryTreeTool::run_tool: the entries of list_directory as name/type
\* records.
directory_tree(f, roots, path) ==
    LET entries == list_directory(f, roots, path) IN
    IF ~entries.result.ok THEN entries
    ELSE [fs |-> f,
          result |-> Ok({[name |-> entry.file_name,
                          type |-> IF entry.is_dir THEN "directory" ELSE "file"]
                         : entry \in entries.result.value})]

\* The run_tool of each tool.
run_tool(f, roots, call) ==
    CASE call.op = "read_file" -> read_file(f, roots, call.path)
      [] call.op = "read_multiple_files" -> read_multiple_files(f, roots, call.paths, call.order)
      [] call.op = "write_file" -> write_file(f, roots, call.path, call.content)
      [] call.op = "edit_file" ->
            apply_file_edits(f, roots, call.path, call.edits, call.dry_run, <<>>)
      [] call.op = "create_directory" -> create_directory(f, roots, call.path)
      [] call.op = "list_directory" -> list_directory(f, roots, call.path)
      [] call.op = "directory_tree" -> directory_tree(f, roots, call.path)
      [] call.op = "move_file" -> move_file(f, roots, call.path, call.path2)
      [] call.op = "search_files" ->
            search_files(f, roots, call.path, call.pattern, call.exclude)
      [] call.op = "get_file_info" -> get_file_stats(f, roots, call.path)
      [] call.op = "list_allowed_directories" -> [fs |-> f, result |-> Ok(roots)]
      [] call.op = "zip_files" -> zip_files(f, roots, call.paths, call.path2)
      [] call.op = "unzip_file" -> unzip_file(f, roots, call.path, call.path2)
      [] call.op = "zip_directory" ->
            zip_directory(f, roots, call.path, call.pattern, call.path2)

handle_call_tool_request(f, roots, ro, call) ==
    IF call.op \notin Tools THEN [fs |-> f, result |-> Err("UnknownTool")]
    ELSE IF require_write_access(call.op) /\ ~assert_write_access(ro).ok
    THEN [fs |-> f, result |-> assert_write_access(ro)]
    ELSE run_tool(f, roots, call)

(***************************************************************************)
(* Calls and results.  hist records, for every call made so far, the call, *)
(* its result and the filesystem it started from.                          *)
(***************************************************************************)
NoArgs ==
    [op |-> "", path |-> <<>>, path2 |-> <<>>, paths |-> <<>>, edits |-> <<>>,
     dry_run |-> <<>>, save_to |-> <<>>, pattern |-> <<>>, exclude |-> <<>>,
     content |-> <<>>, order |-> <<>>]

Record(call, result) ==
    hist' = Append(hist, [call |-> call, result |-> result, pre |-> fs])

Cur == hist[Len(hist)]

(***************************************************************************)
(* The filesystem the path guard is exercised on: a sandbox /s holding a   *)
(* file, a directory and a symlink /s/l that leads to /o outside it.       *)
(***************************************************************************)
GuardFs ==
    (<<>> :> DirNode) @@ (<<"s">> :> DirNode) @@ (<<"s", "d">> :> DirNode)
    @@ (<<"s", "f">> :> FileNode(<<"x">>))
    @@ (<<"s", "l">> :> LinkNode(<<"o">>))
    @@ (<<"o">> :> DirNode) @@ (<<"o", "f">> :> FileNode(<<"y">>))
    @@ (<<"h">> :> DirNode) @@ (<<"sx">> :> DirNode)

RootSets == { << <<"s">> >>, << <<"s">>, <<"h">> >> }

GuardNames == {"s", "sx", "o", "d", "f", "l", "n", "..", ".", "~"}

RequestPaths ==
    {[abs |-> a, comps |-> c] : a \in BOOLEAN, c \in SeqsUpTo(GuardNames, MaxPathLen)}

InitGuard ==
    /\ fs = GuardFs
    /\ allowed_path \in RootSets
    /\ readonly = FALSE
    /\ hist = <<>>
    /\ tasks = <<>>

\* A caller asks the service to validate a path (tests call it directly).
ValidatePath(p) ==
    /\ hist = <<>>
    /\ LET v == validate_path(fs, allowed_path, p) IN
       Record([NoArgs EXCEPT !.op = "validate_path", !.path = p],
              IF v.ok THEN Ok(v.path) ELSE Denied(v))
    /\ UNCHANGED <<fs, allowed_path, readonly, tasks>>

NextGuard == \E p \in RequestPaths : ValidatePath(p)

SpecGuard == InitGuard /\ [][NextGuard]_vars

(***************************************************************************)
(* What a path denotes, read lexically: ".." removes the component before  *)
(* it.                                                                     *)
(***************************************************************************)
RECURSIVE LexFold(_, _)
LexFold(acc, rest) ==
    IF rest = <<>> THEN acc
    ELSE IF Head(rest) = ".." THEN LexFold(Parent(acc), Tail(rest))
    ELSE LexFold(Append(acc, Head(rest)), Tail(rest))

Lexical(comps) == LexFold(<<>>, comps)

UnderAnyRoot(loc) == \E i \in 1..Len(allowed_path) : IsPrefix(allowed_path[i], loc)

\* Some prefix of the location is a symlink whose target is outside all roots.
ThroughOutsideSymlink(f, loc) ==
    \E k \in 1..Len(loc) :
        /\ SubSeq(loc, 1, k) \in DOMAIN f
        /\ f[SubSeq(loc, 1, k)].kind = "link"
        /\ ~UnderAnyRoot(f[SubSeq(loc, 1, k)].target)

\* C1: a path whose lexical location (after home expansion, joining with the
\* working directory and resolving "..") is neither a root nor below a root is
\* refused by validate_path with the access-denied error.
C1_OutsideIsDenied ==
    \A i \in 1..Len(hist) :
        (/\ hist[i].call.op = "validate_path"
         /\ ~UnderAnyRoot(Lexical(absolute_path(hist[i].call.path))))
        => (~hist[i].result.ok /\ hist[i].result.err = "AccessDenied")

\* C2: a path lexically under a root that passes through a symlink leading
\* outside all roots is refused, with the symlink-specific message, whether or
\* not its last component exists.
C2_SymlinkEscapeIsDenied ==
    \A i \in 1..Len(hist) :
        (/\ hist[i].call.op = "validate_path"
         /\ ".." \notin Range(absolute_path(hist[i].call.path))
         /\ UnderAnyRoot(absolute_path(hist[i].call.path))
         /\ ThroughOutsideSymlink(hist[i].pre, absolute_path(hist[i].call.path)))
        => (~hist[i].result.ok /\ hist[i].result.err = "AccessDenied"
            /\ hist[i].result.symlink)

(***************************************************************************)
(* The edit engine's specification: a text file /s/f in the sandbox /s, a  *)
(* file /o/f outside it, and calls of apply_file_edits.  The first call of *)
(* a behaviour takes any arguments; after a dry run the same edits may be  *)
(* applied for real (preview, then apply).                                 *)
(***************************************************************************)
EditContents ==
    { <<"a", CR, LF, "b", CR, LF>>,          \* CRLF throughout
      <<"a", LF, "b", LF>>,                  \* LF throughout
      <<"a", CR, "b">>,                      \* lone CR
      <<"a", CR, LF, "b", LF, "a">>,         \* mixed
      <<" ", "a", LF, " ", "b", LF>>,        \* indented, LF
      <<" ", "a", CR, LF, " ", " ", "b">>,   \* indented, CRLF
      <<"a">>,                               \* one line, no terminator
      <<>> }

EditFs(content) ==
    (<<>> :> DirNode) @@ (<<"s">> :> DirNode) @@ (<<"s", "d">> :> DirNode)
    @@ (<<"s", "f">> :> FileNode(content))
    @@ (<<"o">> :> DirNode) @@ (<<"o", "f">> :> FileNode(<<"a", LF>>))

OldTexts == { <<"a">>, <<"a", LF, "b">>, <<"c">> }

NewTexts == { <<"c", LF, "c">>, <<"c">>, <<>> }

EditOps == {[old_text |-> o, new_text |-> n] : o \in OldTexts, n \in NewTexts}

EditPaths == { [abs |-> TRUE, comps |-> <<"s", "f">>], [abs |-> TRUE, comps |-> <<"o", "f">>] }

SaveTos ==
    { <<>>, <<[abs |-> TRUE, comps |-> <<"s", "g">>]>>, <<[abs |-> TRUE, comps |-> <<"o", "g">>]>> }

DryRuns == { <<>>, <<TRUE>>, <<FALSE>> }

InitEdit ==
    /\ fs \in {EditFs(c) : c \in EditContents}
    /\ allowed_path = << <<"s">> >>
    /\ readonly = FALSE
    /\ hist = <<>>
    /\ tasks = <<>>

IsDryRun(call) == call.dry_run = <<TRUE>>

ApplyFileEdits(file_path, edits, dry_run, save_to) ==
    /\ Len(hist) < MaxCalls
    /\ \E r \in {apply_file_edits(fs, allowed_path, file_path, edits, dry_run, save_to)} :
       /\ fs' = r.fs
       /\ Record([NoArgs EXCEPT !.op = "apply_file_edits", !.path = file_path,
                                !.edits = edits, !.dry_run = dry_run,
                                !.save_to = save_to],
                 r.result)
    /\ UNCHANGED <<allowed_path, readonly, tasks>>

\* The arguments a caller may pass next: anything at first; after a dry run,
\* the previewed path and edits without the dry-run flag.
Previewed == hist # <<>> /\ Cur.call.op = "apply_file_edits" /\ IsDryRun(Cur.call)

NextEditPaths ==
    IF hist = <<>> THEN EditPaths ELSE IF Previewed THEN {Cur.call.path} ELSE {}

NextEditBatches ==
    IF hist = <<>> THEN SeqsUpTo(EditOps, MaxEdits) ELSE {Cur.call.edits}

NextDryRuns == IF hist = <<>> THEN DryRuns ELSE DryRuns \ {<<TRUE>>}

NextEdit ==
    \E file_path \in NextEditPaths, edits \in NextEditBatches,
       dry_run \in NextDryRuns, save_to \in SaveTos :
        ApplyFileEdits(file_path, edits, dry_run, save_to)

SpecEdit == InitEdit /\ [][NextEdit]_vars

\* The filesystem the i-th call left behind.
After(i) == IF i = Len(hist) THEN fs ELSE hist[i + 1].pre

IsEdit(i) == hist[i].call.op = "apply_file_edits"

\* The file a call of apply_file_edits reads, when it gets that far.
Readable(i) ==
    /\ validate_path(hist[i].pre, allowed_path, hist[i].call.path).ok
    /\ read_to_string(hist[i].pre, absolute_path(hist[i].call.path)).ok

OriginalText(i) == read_to_string(hist[i].pre, absolute_path(hist[i].call.path)).data

\* The path a non-dry-run call writes to, and what is there afterwards.
WriteTarget(i) ==
    IF hist[i].call.save_to = <<>> THEN absolute_path(hist[i].call.path)
    ELSE os_path(hist[i].call.save_to[1])

WrittenText(i) == read_to_string(After(i), WriteTarget(i)).data

\* C4: with dry_run false and a save_to outside every root, apply_file_edits
\* fails with access denied and writes nothing.
C4_SaveToStaysInSandbox ==
    \A i \in 1..Len(hist) :
        (/\ IsEdit(i) /\ ~IsDryRun(hist[i].call)
         /\ hist[i].call.save_to # <<>>
         /\ ~UnderAnyRoot(Lexical(os_path(hist[i].call.save_to[1]))))
        => (/\ ~hist[i].result.ok /\ hist[i].result.err = "AccessDenied"
            /\ After(i) = hist[i].pre)

\* An edit matches a content exactly, or by whitespace-tolerant comparison
\* of a window of lines; written from the description of the matching.
ExactMatch(content, edit) == contains(content, normalize_line_endings(edit.old_text))

FuzzyMatch(content, edit) ==
    LET ol == split(trim_end(normalize_line_endings(edit.old_text)), LF)
        cl == split(trim_end(content), LF)
    IN \E w \in 1..Len(cl) :
          /\ w + Len(ol) - 1 <= Len(cl)
          /\ \A j \in 1..Len(ol) : trim(ol[j]) = trim(cl[w + j - 1])

\* The k-th edit of the batch is reached and matches in neither way.
UnmatchedAt(content, edits, k) ==
    LET before == apply_edits(content, SubSeq(edits, 1, k - 1), 0) IN
    /\ before.st = "ok"
    /\ ~ExactMatch(before.content, edits[k])
    /\ ~FuzzyMatch(before.content, edits[k])

\* C6: if some edit of the batch matches neither exactly nor by fuzzy line
\* matching, the call returns the no-match error for that edit, attempts no
\* later edit and writes nothing.
C6_BatchAllOrNothing ==
    \A i \in 1..Len(hist) :
        (IsEdit(i) /\ Readable(i)) =>
            \A k \in 1..Len(hist[i].call.edits) :
                UnmatchedAt(normalize_line_endings(OriginalText(i)), hist[i].call.edits, k)
                => (/\ ~hist[i].result.ok /\ hist[i].result.err = "NoMatch"
                    /\ hist[i].result.value[1] = k
                    /\ After(i) = hist[i].pre)

\* C7: a dry run leaves the filesystem as it was (save_to is not created),
\* and returns the fenced diff the same call without dry_run returns.
C7_DryRunNeverWrites ==
    \A i \in 1..Len(hist) :
        (IsEdit(i) /\ IsDryRun(hist[i].call)) =>
            /\ After(i) = hist[i].pre
            /\ \A j \in (i + 1)..Len(hist) :
                  (/\ IsEdit(j) /\ hist[j].call.path = hist[i].call.path
                   /\ hist[j].call.edits = hist[i].call.edits
                   /\ hist[j].pre = hist[i].pre)
                  => /\ hist[j].result.ok => hist[i].result = hist[j].result
                     /\ ~hist[i].result.ok => hist[i].result = hist[j].result

\* A dry run with save_to that changed a text, then the same edits applied.
C7_Witness ==
    /\ Len(hist) = 2
    /\ IsEdit(1) /\ IsDryRun(hist[1].call) /\ hist[1].call.save_to # <<>>
    /\ hist[1].result.ok /\ hist[1].result.value.diff.old # <<>>
    /\ IsEdit(2) /\ hist[2].result.ok /\ fs # hist[2].pre

AllCRLF(w) ==
    \A k \in 1..Len(w) :
        /\ w[k] = LF => (k > 1 /\ w[k - 1] = CR)
        /\ w[k] = CR => (k < Len(w) /\ w[k + 1] = LF)

WrittenWithLF(edits) ==
    \A k \in 1..Len(edits) : CR \notin Range(edits[k].old_text) \cup Range(edits[k].new_text)

\* C10: after a successful non-dry-run call whose edit texts use LF, the
\* written content has only CRLF terminators if the file held a CRLF, only
\* CR if it held a lone CR and no CRLF, and only LF if it held no CR.
C10_LineEndingPreserved ==
    \A i \in 1..Len(hist) :
        (/\ IsEdit(i) /\ hist[i].result.ok /\ ~IsDryRun(hist[i].call)
         /\ WrittenWithLF(hist[i].call.edits))
        => LET orig == OriginalText(i)
               w == WrittenText(i)
           IN /\ contains(orig, <<CR, LF>>) => AllCRLF(w)
              /\ (~contains(orig, <<CR, LF>>) /\ CR \in Range(orig)) => LF \notin Range(w)
              /\ CR \notin Range(orig) => CR \notin Range(w)

\* A file mixing CRLF and LF was edited with a multi-line LF text.
C10_Witness ==
    /\ Len(hist) = 1 /\ IsEdit(1) /\ hist[1].result.ok /\ ~IsDryRun(hist[1].call)
    /\ contains(OriginalText(1), <<CR, LF>>)
    /\ ~AllCRLF(OriginalText(1))
    /\ \E k \in 1..Len(hist[1].call.edits) : LF \in Range(hist[1].call.edits[k].new_text)
    /\ contains(WrittenText(1), <<CR, LF, "c", CR, LF>>)

(***************************************************************************)
(* The archive engine's specification: a sandbox /s with files of the same *)
(* base name in two directories and an archive /s/m that came from         *)
(* elsewhere, a directory /o outside.  One call of any archive operation,  *)
(* then extractions.                                                       *)
(***************************************************************************)
ArchiveNames ==
    { <<"e">>, <<"d", "/", "e">>, <<"..", "/", "e">>,
      <<"..", "/", "..", "/", "o", "/", "e">>, <<"/", "o", "/", "e">> }

ZipFs(name) ==
    (<<>> :> DirNode) @@ (<<"s">> :> DirNode) @@ (<<"s", "d">> :> DirNode)
    @@ (<<"s", "a">> :> FileNode(<<"x">>))
    @@ (<<"s", "d", "a">> :> FileNode(<<"y">>))
    @@ (<<"s", "d", "b">> :> FileNode(<<"z">>))
    @@ (<<"s", "d", "A">> :> FileNode(<<"w">>))
    @@ (<<"s", "m">> :> ZipNode(<<[name |-> name, node |-> FileNode(<<"e">>)]>>))
    @@ (<<"o">> :> DirNode)

AbsPath(comps) == [abs |-> TRUE, comps |-> comps]

ZipSources ==
    { AbsPath(<<"s", "a">>), AbsPath(<<"s", "d", "a">>), AbsPath(<<"s", "d", "b">>),
      AbsPath(<<"s", "n">>) }

Distinct(list) == \A i, j \in 1..Len(list) : i # j => list[i] # list[j]

ZipLists == {l \in SeqsUpTo(ZipSources, MaxFiles) : Distinct(l)}

ZipTargets == { AbsPath(<<"s", "z">>), AbsPath(<<"s", "a">>), AbsPath(<<"o", "z">>) }

UnzipArchives == { AbsPath(<<"s", "z">>), AbsPath(<<"s", "m">>), AbsPath(<<"s", "n">>) }

UnzipTargets == { AbsPath(<<"s", "t">>), AbsPath(<<"s", "d">>), AbsPath(<<"o", "t">>) }

\* /s/d is also given with a trailing separator.
ZipDirs ==
    { AbsPath(<<"s", "d">>), AbsPath(<<"s", "d", "">>), AbsPath(<<"s">>), AbsPath(<<"o">>) }

ZipPatterns == { <<"*", "*", "/", "*">>, <<"a">>, <<"*", "b">> }

InitZip ==
    /\ fs \in {ZipFs(n) : n \in ArchiveNames}
    /\ allowed_path = << <<"s">> >>
    /\ readonly = FALSE
    /\ hist = <<>>
    /\ tasks = <<>>

ZipFiles(input_files, target_zip_file) ==
    /\ hist = <<>>
    /\ \E r \in {zip_files(fs, allowed_path, input_files, target_zip_file)} :
       /\ fs' = r.fs
       /\ Record([NoArgs EXCEPT !.op = "zip_files", !.paths = input_files,
                                !.path2 = target_zip_file],
                 r.result)
    /\ UNCHANGED <<allowed_path, readonly, tasks>>

ZipDirectory(input_dir, pattern, target_zip_file) ==
    /\ hist = <<>>
    /\ \E r \in {zip_directory(fs, allowed_path, input_dir, pattern, target_zip_file)} :
       /\ fs' = r.fs
       /\ Record([NoArgs EXCEPT !.op = "zip_directory", !.path = input_dir,
                                !.pattern = pattern, !.path2 = target_zip_file],
                 r.result)
    /\ UNCHANGED <<allowed_path, readonly, tasks>>

UnzipFile(zip_file, target_dir) ==
    /\ Len(hist) < MaxCalls
    /\ \E r \in {unzip_file(fs, allowed_path, zip_file, target_dir)} :
       /\ fs' = r.fs
       /\ Record([NoArgs EXCEPT !.op = "unzip_file", !.path = zip_file,
                                !.path2 = target_dir],
                 r.result)
    /\ UNCHANGED <<allowed_path, readonly, tasks>>

NextZip ==
    \/ \E l \in ZipLists, t \in ZipTargets : ZipFiles(l, t)
    \/ \E d \in ZipDirs, pat \in ZipPatterns, t \in ZipTargets : ZipDirectory(d, pat, t)
    \/ \E z \in UnzipArchives, t \in UnzipTargets : UnzipFile(z, t)

SpecZip == InitZip /\ [][NextZip]_vars

\* The locations whose node the i-th call created or changed.
Touched(i) ==
    {loc \in DOMAIN After(i) : loc \notin DOMAIN hist[i].pre \/ After(i)[loc] # hist[i].pre[loc]}

\* C3: unzip_file creates or overwrites nothing outside target_dir, whatever
\* the entry names of the archive are.
C3_UnzipStaysUnderTarget ==
    \A i \in 1..Len(hist) :
        hist[i].call.op = "unzip_file" =>
            \A loc \in Touched(i) :
                IsPrefix(Lexical(absolute_path(hist[i].call.path2)), loc)

\* A path names a readable regular file inside the sandbox.
ReadableSource(f, p) ==
    /\ validate_path(f, allowed_path, p).ok
    /\ UnderAnyRoot(Lexical(absolute_path(p)))
    /\ canonicalize(f, absolute_path(p)).ok
    /\ IsRegular(f[canonicalize(f, absolute_path(p)).path])

\* A path inside the sandbox at which nothing exists yet.
FreeTarget(f, p) ==
    /\ validate_path(f, allowed_path, p).ok
    /\ UnderAnyRoot(Lexical(absolute_path(p)))
    /\ ~exists(f, absolute_path(p))

\* C8: zip_files of distinct readable files followed by unzip_file of the
\* archive succeeds and leaves, for each listed file, a file with the same
\* bytes under the target directory.
C8_ArchiveRoundTrip ==
    \A i \in 1..(Len(hist) - 1) :
        LET zc == hist[i].call
            uc == hist[i + 1].call
        IN (/\ zc.op = "zip_files" /\ uc.op = "unzip_file" /\ uc.path = zc.path2
            /\ zc.paths # <<>>
            /\ \A k \in 1..Len(zc.paths) : ReadableSource(hist[i].pre, zc.paths[k])
            /\ FreeTarget(hist[i].pre, zc.path2)
            /\ FreeTarget(hist[i + 1].pre, uc.path2))
           => /\ hist[i].result.ok /\ hist[i + 1].result.ok
              /\ \A k \in 1..Len(zc.paths) :
                    \E loc \in DOMAIN After(i + 1) :
                        /\ IsPrefix(absolute_path(uc.path2), loc)
                        /\ After(i + 1)[loc] =
                               hist[i].pre[canonicalize(hist[i].pre,
                                                        absolute_path(zc.paths[k])).path]

\* The target of an archive call: the zip file to create, or the directory
\* to extract into.
IsArchiveCall(i) == hist[i].call.op \in {"zip_files", "zip_directory", "unzip_file"}

TargetExists(i) == exists(hist[i].pre, absolute_path(hist[i].call.path2))

\* C9 as stated: an archive call whose target exists fails with
\* AlreadyExists and leaves everything as it was.
C9_Original ==
    \A i \in 1..Len(hist) :
        (IsArchiveCall(i) /\ TargetExists(i))
        => (/\ ~hist[i].result.ok /\ hist[i].result.err = "AlreadyExists"
            /\ After(i) = hist[i].pre)

\* The checks that come before the existence check pass.
EarlierChecksPass(i) ==
    LET c == hist[i].call
        f == hist[i].pre
    IN /\ validate_path(f, allowed_path, c.path2).ok
       /\ c.op = "zip_files" => c.paths # <<>>
       /\ c.op = "zip_directory" => validate_path(f, allowed_path, c.path).ok
       /\ c.op = "unzip_file" =>
              (validate_path(f, allowed_path, c.path).ok /\ exists(f, absolute_path(c.path)))

\* C9: an archive call whose target exists fails and leaves everything as
\* it was; the error is AlreadyExists whenever the checks made before the
\* existence check pass.
C9_NeverOverwrites ==
    \A i \in 1..Len(hist) :
        (IsArchiveCall(i) /\ TargetExists(i))
        => (/\ ~hist[i].result.ok
            /\ After(i) = hist[i].pre
            /\ EarlierChecksPass(i) => hist[i].result.err = "AlreadyExists")

\* Each of the three operations was refused with AlreadyExists.
C9_Witness ==
    /\ Len(hist) = 2
    /\ hist[1].call.op \in {"zip_files", "zip_directory"}
    /\ TargetExists(1) /\ hist[1].result.err = "AlreadyExists"
    /\ hist[2].call.op = "unzip_file"
    /\ TargetExists(2) /\ hist[2].result.err = "AlreadyExists"
    /\ fs = hist[1].pre

(***************************************************************************)
(* The server: started with or without --allow-write on a sandbox /s,      *)
(* with a file /o/f outside it, and then called through its handler.       *)
(***************************************************************************)
ServerFs ==
    (<<>> :> DirNode) @@ (<<"s">> :> DirNode) @@ (<<"s", "d">> :> DirNode)
    @@ (<<"s", "f">> :> FileNode(<<"a", LF, "b", LF>>))
    @@ (<<"s", "d", "a">> :> FileNode(<<"y">>))
    @@ (<<"s", "l">> :> LinkNode(<<"o">>))
    @@ (<<"o">> :> DirNode) @@ (<<"o", "f">> :> FileNode(<<"a", LF>>))

Init ==
    /\ fs = ServerFs
    /\ allowed_path = << <<"s">> >>
    /\ \E allow_write \in BOOLEAN : readonly = new(allow_write)
    /\ hist = <<>>
    /\ tasks = <<>>

InFile == AbsPath(<<"s", "f">>)

InDir == AbsPath(<<"s", "d">>)

InNew == AbsPath(<<"s", "n">>)

OutFile == AbsPath(<<"o", "f">>)

\* A relative path; joined to the working directory /s/d it names /s/d/a.
RelFile == [abs |-> FALSE, comps |-> <<"a">>]

\* The requests a client sends: every tool, with paths inside and outside
\* the sandbox, existing and missing.
Requests ==
    {[NoArgs EXCEPT !.op = "read_file", !.path = p] :
        p \in {InFile, InNew, OutFile, RelFile}}
    \cup {[NoArgs EXCEPT !.op = "read_multiple_files", !.paths = x[1], !.order = x[2]] :
            x \in { <<<<InFile, OutFile>>, <<1, 2>>>>, <<<<InFile, OutFile>>, <<2, 1>>>>,
                    <<<<InNew>>, <<1>>>>, <<<<>>, <<>>>> }}
    \cup {[NoArgs EXCEPT !.op = "write_file", !.path = p, !.content = <<"c">>] :
            p \in {InFile, InNew, OutFile, RelFile}}
    \cup {[NoArgs EXCEPT !.op = "edit_file", !.path = p, !.dry_run = d,
                         !.edits = <<[old_text |-> <<"a">>, new_text |-> <<"c">>]>>] :
            p \in {InFile, OutFile}, d \in {<<>>, <<TRUE>>}}
    \cup {[NoArgs EXCEPT !.op = "create_directory", !.path = p] :
            p \in {InNew, InDir, AbsPath(<<"s", "n", "n">>), AbsPath(<<"o", "n">>)}}
    \cup {[NoArgs EXCEPT !.op = t, !.path = p] :
            t \in {"list_directory", "directory_tree"},
            p \in {AbsPath(<<"s">>), AbsPath(<<"o">>)}}
    \cup {[NoArgs EXCEPT !.op = "move_file", !.path = InFile, !.path2 = q] :
            q \in {InNew, AbsPath(<<"s", "d", "a">>), AbsPath(<<"o", "g">>)}}
    \cup {[NoArgs EXCEPT !.op = "search_files", !.path = p, !.pattern = <<"a">>,
                         !.exclude = x] :
            p \in {AbsPath(<<"s">>), AbsPath(<<"o">>)},
            x \in {<<>>, << <<"d">> >>, << <<"*", "d">> >>}}
    \cup {[NoArgs EXCEPT !.op = "search_files", !.path = AbsPath(<<"s">>),
                         !.pattern = <<"f">>]}
    \cup {[NoArgs EXCEPT !.op = "get_file_info", !.path = p] : p \in {InFile, OutFile}}
    \cup {[NoArgs EXCEPT !.op = "list_allowed_directories"]}
    \cup {[NoArgs EXCEPT !.op = "zip_files", !.paths = <<InFile>>, !.path2 = t] :
            t \in {AbsPath(<<"s", "z">>), AbsPath(<<"o", "z">>)}}
    \cup {[NoArgs EXCEPT !.op = "unzip_file", !.path = AbsPath(<<"s", "z">>),
                         !.path2 = t] :
            t \in {AbsPath(<<"s", "t">>), AbsPath(<<"o", "t">>)}}
    \cup {[NoArgs EXCEPT !.op = "zip_directory", !.path = d,
                         !.pattern = <<"*", "*", "/", "*">>,
                         !.path2 = AbsPath(<<"s", "z">>)] :
            d \in {InDir, AbsPath(<<"s">>), AbsPath(<<"o">>)}}
    \cup {[NoArgs EXCEPT !.op = "no_such_tool"]}

\* A tool call arrives and the handler answers it.
CallTool(call) ==
    /\ Len(hist) < MaxCalls
    /\ \E r \in {handle_call_tool_request(fs, allowed_path, readonly, call)} :
        /\ fs' = r.fs
        /\ Record(call, r.result)
    /\ UNCHANGED <<allowed_path, readonly, tasks>>

Next == \E call \in Requests : CallTool(call)

Spec == Init /\ [][Next]_vars

\* C5: on a read-only server every call of a write-class tool is answered
\* with NoWriteAccess, whatever its parameters (a path outside the sandbox
\* or a missing file included, so before validation), and changes nothing;
\* a read-class tool is never answered with NoWriteAccess; and the server
\* is read-only exactly when --allow-write was not given.
C5_ReadOnlyGate ==
    /\ \A allow_write \in BOOLEAN : new(allow_write) = ~allow_write
    /\ \A i \in 1..Len(hist) :
        LET c == hist[i].call
            r == hist[i].result
        IN /\ (readonly /\ c.op \in { "write_file", "edit_file", "create_directory",
                                      "move_file", "zip_files", "zip_directory",
                                      "unzip_file" })
              => (~r.ok /\ r.err = "NoWriteAccess" /\ After(i) = hist[i].pre)
           /\ c.op \in { "read_file", "read_multiple_files", "list_directory",
                         "directory_tree", "search_files", "get_file_info",
                         "list_allowed_directories" }
              => r.err # "NoWriteAccess"

\* A read-only server has refused a dry-run edit of a file outside the
\* sandbox and then served a read.
C5_Witness ==
    /\ readonly
    /\ Len(hist) = 2
    /\ hist[1].call.op = "edit_file" /\ hist[1].call.dry_run = <<TRUE>>
    /\ hist[1].call.path = OutFile
    /\ hist[1].result.err = "NoWriteAccess"
    /\ hist[2].call.op = "read_file" /\ hist[2].result.ok

(***************************************************************************)
(* The edit engine on single edits: texts with tabs, indentation, repeated *)
(* occurrences, mixed line endings and backticks in the file /s/f, and one *)
(* call of apply_file_edits with one edit or with none.                    *)
(***************************************************************************)
TextContents ==
    { <<"a", LF, "b", LF>>,
      <<"a", " ", LF, "b", LF, "a", LF, "b">>,   \* a fuzzy window before the literal text
      <<"a", "a">>,                              \* two occurrences
      <<"\t", "a", LF, "\t", "b">>,              \* indented with tabs
      <<" ", "a", LF, " ", " ", "b", LF>>,       \* indented with spaces
      <<"a", CR, LF, "b", LF, "a">>,             \* CRLF and LF
      <<"a", CR, "b", CR, LF>>,                  \* CR and CRLF
      <<"a">>,
      <<>>,
      <<Backtick, Backtick, Backtick, LF, "a">> }

TextOlds == { <<"a">>, <<"a", LF, "b">>, <<"a", LF, " ", "b">>, <<"b">>, <<"c">> }

TextNews ==
    { <<"c">>, <<"c", LF, "c">>, <<"c", LF, " ", "c", " ">>, <<" ", "c", " ">>, <<>>,
      <<Backtick, Backtick, Backtick, Backtick>> }

TextBatches ==
    {<<>>} \cup {<<[old_text |-> o, new_text |-> n]>> : o \in TextOlds, n \in TextNews}

InitText ==
    /\ fs \in {EditFs(c) : c \in TextContents}
    /\ allowed_path = << <<"s">> >>
    /\ readonly = FALSE
    /\ hist = <<>>
    /\ tasks = <<>>

EditText(edits, dry_run) ==
    /\ hist = <<>>
    /\ \E r \in {apply_file_edits(fs, allowed_path, AbsPath(<<"s", "f">>), edits, dry_run, <<>>)} :
       /\ fs' = r.fs
       /\ Record([NoArgs EXCEPT !.op = "apply_file_edits", !.path = AbsPath(<<"s", "f">>),
                                !.edits = edits, !.dry_run = dry_run],
                 r.result)
    /\ UNCHANGED <<allowed_path, readonly, tasks>>

NextText == \E edits \in TextBatches, dry_run \in {<<>>, <<TRUE>>} : EditText(edits, dry_run)

SpecText == InitText /\ [][NextText]_vars

\* A call with one edit that wrote the file.
OneEditWritten(i) ==
    /\ IsEdit(i) /\ Len(hist[i].call.edits) = 1 /\ ~IsDryRun(hist[i].call)
    /\ hist[i].result.ok

\* The text before and after the call, with LF line endings.
TextBefore(i) == normalize_line_endings(OriginalText(i))

TextAfter(i) == normalize_line_endings(WrittenText(i))

\* C11: when the normalized old text occurs verbatim in the normalized
\* content, the edit succeeds and the content afterwards is the content
\* with the leftmost occurrence replaced by the new text, all else as it
\* was, also when a fuzzy window lies before that occurrence.
C11_ExactMatchFirst ==
    \A i \in 1..Len(hist) :
        (/\ IsEdit(i) /\ Len(hist[i].call.edits) = 1 /\ ~IsDryRun(hist[i].call)
         /\ ExactMatch(TextBefore(i), hist[i].call.edits[1]))
        => /\ hist[i].result.ok
           /\ LET c == TextBefore(i)
                  o == normalize_line_endings(hist[i].call.edits[1].old_text)
                  n == normalize_line_endings(hist[i].call.edits[1].new_text)
              IN \E k \in 1..(Len(c) - Len(o) + 1) :
                    /\ SubSeq(c, k, k + Len(o) - 1) = o
                    /\ \A j \in 1..(k - 1) : SubSeq(c, j, j + Len(o) - 1) # o
                    /\ TextAfter(i) = SubSeq(c, 1, k - 1) \o n \o SubSeq(c, k + Len(o), Len(c))

\* The literal text was replaced where a fuzzy window starts on an earlier
\* line, and a second occurrence was left alone.
C11_Witness ==
    /\ Len(hist) = 1 /\ OneEditWritten(1)
    /\ OriginalText(1) = <<"a", " ", LF, "b", LF, "a", LF, "b">>
    /\ hist[1].call.edits[1] = [old_text |-> <<"a", LF, "b">>, new_text |-> <<"c">>]
    /\ WrittenText(1) = <<"a", " ", LF, "b", LF, "c">>

\* One edit that matched by trimmed lines only and wrote the file.
FuzzyOnly(i) ==
    /\ IsEdit(i) /\ Len(hist[i].call.edits) = 1 /\ ~IsDryRun(hist[i].call)
    /\ ~ExactMatch(TextBefore(i), hist[i].call.edits[1])
    /\ FuzzyMatch(TextBefore(i), hist[i].call.edits[1])

\* The lines written in place of the lowest matching window are built as
\* described: the matched first line's leading whitespace, the relative
\* indent in the indent character, and Body of the new line.
FuzzyReplacement(i, Body(_)) ==
    LET ol == split(trim_end(normalize_line_endings(hist[i].call.edits[1].old_text)), LF)
        cl == split(trim_end(TextBefore(i)), LF)
        nl == split(normalize_line_endings(hist[i].call.edits[1].new_text), LF)
        hit(v) == /\ v + Len(ol) - 1 <= Len(cl)
                  /\ \A j \in 1..Len(ol) : trim(ol[j]) = trim(cl[v + j - 1])
        w == CHOOSE v \in 1..Len(cl) : hit(v) /\ \A u \in 1..(v - 1) : ~hit(u)
        ws(line) == Len(line) - Len(trim_start(line))
        base == SubSeq(cl[w], 1, ws(cl[w]))
        ch == IF "\t" \in Range(base) THEN "\t" ELSE " "
        old_ws(j) == IF j <= Len(ol) THEN ws(ol[j]) ELSE 0
        rel(j) == IF ws(nl[j]) >= old_ws(j) THEN ws(nl[j]) - old_ws(j) ELSE 0
        out == split(TextAfter(i), LF)
    IN /\ Len(out) >= w + Len(nl) - 1
       /\ out[w] = base \o trim_start(nl[1])
       /\ \A j \in 2..Len(nl) :
             out[w + j - 1] = base \o [k \in 1..rel(j) |-> ch] \o Body(nl[j])

\* C12 as stated: a fuzzy match succeeds, and replacement line j > 0 ends
\* with the trimmed new line.
C12_Original ==
    \A i \in 1..Len(hist) : FuzzyOnly(i) => (hist[i].result.ok /\ FuzzyReplacement(i, trim))

\* C12: a fuzzy match succeeds; replacement line 0 is the matched first
\* line's leading whitespace and the new line without its leading
\* whitespace; replacement line j > 0 is that base indentation, then
\* max(0, indent of new line j - indent of old line j) indent characters
\* (no old line j counts as indent 0), then the new line without its
\* leading whitespace, its trailing whitespace kept.
C12_FuzzyIndentation ==
    \A i \in 1..Len(hist) :
        FuzzyOnly(i) => (hist[i].result.ok /\ FuzzyReplacement(i, trim_start))

\* The tab-indented lines a and b were matched by the unindented old text
\* and replaced by two lines that keep the tab.
C12_Witness ==
    /\ Len(hist) = 1 /\ FuzzyOnly(1) /\ hist[1].result.ok
    /\ OriginalText(1) = <<"\t", "a", LF, "\t", "b">>
    /\ hist[1].call.edits[1] = [old_text |-> <<"a", LF, "b">>, new_text |-> <<"c", LF, "c">>]
    /\ WrittenText(1) = <<"\t", "c", LF, "\t", "c">>

\* The longest run of backticks in the parts of a diff (0 when there is none).
LongestRun(diff) ==
    LET parts == {diff.index} \cup Range(diff.old) \cup Range(diff.new)
        HasRun(n) == \E p \in parts : \E k \in 1..(Len(p) - n + 1) :
                        \A j \in 0..(n - 1) : p[k + j] = Backtick
    IN CHOOSE n \in 0..8 : HasRun(n) /\ ~HasRun(n + 1)

\* C13: the text apply_file_edits returns opens and closes with fences of
\* the same length n, the smallest n >= 3 that is greater than the longest
\* run of backticks in the diff.
C13_FenceLongerThanRuns ==
    \A i \in 1..Len(hist) :
        (IsEdit(i) /\ hist[i].result.ok) =>
            LET v == hist[i].result.value
                run == LongestRun(v.diff)
            IN /\ v.open = v.close
               /\ v.open = IF run + 1 > DefaultFence THEN run + 1 ELSE DefaultFence

\* A file whose first line is three backticks was edited: the diff shows
\* that line and is fenced with four.
C13_Witness ==
    /\ Len(hist) = 1 /\ IsEdit(1) /\ hist[1].result.ok
    /\ OriginalText(1) = <<Backtick, Backtick, Backtick, LF, "a">>
    /\ LongestRun(hist[1].result.value.diff) = 3
    /\ hist[1].result.value.open = 4 /\ hist[1].result.value.close = 4

\* A call of create_directory that reached the service, with an absolute
\* path under the sandbox root /s.
CreatesInSandbox(i) ==
    /\ hist[i].call.op = "create_directory" /\ ~readonly
    /\ hist[i].call.path.abs /\ starts_with(hist[i].call.path.comps, allowed_path[1])

\* C14: create_directory on an existing directory of the sandbox succeeds
\* and changes nothing; on a missing path none of whose parents is a file
\* it succeeds, makes every missing parent a directory and changes nothing
\* else; and a second identical call succeeds and changes nothing.
C14_CreateDirectoryIdempotent ==
    \A i \in 1..Len(hist) :
        CreatesInSandbox(i) =>
            LET p == hist[i].call.path.comps
                pre == hist[i].pre
                post == After(i)
                prefixes == {SubSeq(p, 1, k) : k \in 1..Len(p)}
            IN /\ is_dir(pre, p) => (hist[i].result.ok /\ post = pre)
               /\ (\A q \in prefixes : q \in DOMAIN pre => pre[q].kind = "dir") =>
                     /\ hist[i].result.ok
                     /\ \A q \in prefixes : is_dir(post, q)
                     /\ \A q \in DOMAIN pre : post[q] = pre[q]
                     /\ DOMAIN post = DOMAIN pre \cup prefixes
               /\ (i < Len(hist) /\ hist[i + 1].call = hist[i].call /\ hist[i].result.ok) =>
                     (hist[i + 1].result.ok /\ After(i + 1) = post)

\* The nested missing path /s/n/n was created with its parent /s/n, and the
\* same call made again succeeded and left that state.
C14_Witness ==
    /\ Len(hist) = 2 /\ CreatesInSandbox(1) /\ CreatesInSandbox(2)
    /\ hist[1].call.path = AbsPath(<<"s", "n", "n">>) /\ hist[2].call = hist[1].call
    /\ ~exists(hist[1].pre, <<"s", "n">>)
    /\ is_dir(hist[2].pre, <<"s", "n">>) /\ is_dir(hist[2].pre, <<"s", "n", "n">>)
    /\ hist[2].result.ok /\ fs = hist[2].pre

\* The entries the include pattern selects by base name.
IncludeMatches(pattern, entry) ==
    LET updated_pattern == IF "*" \in Range(pattern) THEN to_lowercase(pattern)
                           ELSE <<"*", "*", "/", "*">> \o to_lowercase(pattern) \o <<"*">>
    IN /\ entry # <<>>
       /\ Pattern_new(updated_pattern).ok
       /\ glob_matches(Pattern_new(updated_pattern).tokens, to_lowercase(<<Last(entry)>>))

\* C15: search_files returns exactly the entries below the root that pass
\* validation, whose lowercased base name matches the include pattern and
\* whose own path relative to the root matches no exclude pattern.
C15_SearchPerEntry ==
    \A i \in 1..Len(hist) :
        (hist[i].call.op = "search_files" /\ hist[i].result.ok) =>
            LET root == absolute_path(hist[i].call.path)
                pre == hist[i].pre
            IN hist[i].result.value =
                  {e \in walk_dir(pre, root) \ {root} :
                      /\ search_keeps(pre, allowed_path, root, hist[i].call.exclude, e)
                      /\ IncludeMatches(hist[i].call.pattern, e)}

\* C16: read_multiple_files succeeds for every list of n paths; its text is
\* n blocks joined by the separator, the k-th block for the k-th path in
\* whatever order the reads completed: the path, then the file's content
\* for a readable file and `: Error - ...` for any other.
C16_ReadMultipleKeepsOrder ==
    \A i \in 1..Len(hist) :
        hist[i].call.op = "read_multiple_files" =>
            LET paths == hist[i].call.paths
                pre == hist[i].pre
                text == hist[i].result.value
                blocks == split(text, "\n---\n")
                name(k) == display(paths[k].comps)
                readable(k) == /\ validate_path(pre, allowed_path, paths[k]).ok
                               /\ read_to_string(pre, absolute_path(paths[k])).ok
            IN /\ hist[i].result.ok /\ After(i) = pre
               /\ paths = <<>> => text = <<>>
               /\ paths # <<>> =>
                    /\ Len(blocks) = Len(paths)
                    /\ \A k \in 1..Len(paths) :
                          IF readable(k)
                          THEN blocks[k] = name(k) \o <<":", LF>>
                                  \o read_to_string(pre, absolute_path(paths[k])).data \o <<LF>>
                          ELSE /\ IsPrefix(name(k) \o <<":", " ", "Error", " ", "-", " ">>,
                                           blocks[k])
                               /\ Len(blocks[k]) = Len(name(k)) + 7

\* /s/f and /o/f were asked for and the read of /o/f completed first: the
\* first block holds the content of /s/f, the second the error for /o/f.
C16_Witness ==
    /\ Len(hist) = 1 /\ hist[1].call.op = "read_multiple_files"
    /\ hist[1].call.paths = <<InFile, OutFile>> /\ hist[1].call.order = <<2, 1>>
    /\ hist[1].result.value =
          <<"/", "s", "/", "f", ":", LF, "a", LF, "b", LF, LF, "\n---\n",
            "/", "o", "/", "f", ":", " ", "Error", " ", "-", " ", "AccessDenied">>

\* C17: a call of read_file or write_file whose path is relative fails and
\* leaves the filesystem as it was.
C17_RelativePathRejected ==
    \A i \in 1..Len(hist) :
        (hist[i].call.op \in {"read_file", "write_file"} /\ ~hist[i].call.path.abs) =>
            (~hist[i].result.ok /\ After(i) = hist[i].pre)

\* C18: one edit whose old text matches no region exactly and no window of
\* trimmed lines is answered with the NoMatch error that carries the old
\* text, and nothing is written.
C18_NoMatchReported ==
    \A i \in 1..Len(hist) :
        (/\ IsEdit(i) /\ Len(hist[i].call.edits) = 1 /\ Readable(i)
         /\ ~ExactMatch(TextBefore(i), hist[i].call.edits[1])
         /\ ~FuzzyMatch(TextBefore(i), hist[i].call.edits[1])) =>
            /\ ~hist[i].result.ok /\ hist[i].result.err = "NoMatch"
            /\ hist[i].result.value = <<1, hist[i].call.edits[1].old_text>>
            /\ After(i) = hist[i].pre

\* C19: a call with no edits, not a dry run and without save_to, succeeds
\* and leaves the file with the bytes it had.
C19_EmptyBatchIsNoOp ==
    \A i \in 1..Len(hist) :
        (/\ IsEdit(i) /\ hist[i].call.edits = <<>> /\ ~IsDryRun(hist[i].call)
         /\ hist[i].call.save_to = <<>> /\ Readable(i)) =>
            (hist[i].result.ok /\ WrittenText(i) = OriginalText(i))

\* C20: zip_directory with a pattern p that holds no `*` archives exactly
\* the files below the directory whose path contains p, letter case
\* disregarded on both sides.
C20_PatternIgnoresCase ==
    \A i \in 1..Len(hist) :
        (/\ hist[i].call.op = "zip_directory" /\ hist[i].result.ok
         /\ "*" \notin Range(hist[i].call.pattern)) =>
            LET pre == hist[i].pre
                dir == absolute_path(hist[i].call.path)
                p == hist[i].call.pattern
                leaves == {q \in DOMAIN pre :
                              /\ IsPrefix(dir, q) /\ q # dir /\ IsRegular(pre[q])
                              /\ contains(to_lowercase(display(q)), to_lowercase(p))}
                archive == After(i)[absolute_path(hist[i].call.path2)]
            IN {archive.entries[k].name : k \in 1..Len(archive.entries)} =
                  {SubSeq(display(q), Len(display(dir)) + 2, Len(display(q))) : q \in leaves}

\* C21: every entry zip_directory stores is named by its source's path
\* relative to the input directory (joining the directory and the name
\* gives a regular file below the directory, with the entry's bytes), no
\* two entries share a source, and no directory is stored.
C21_EntryNamesAreRelative ==
    \A i \in 1..Len(hist) :
        (hist[i].call.op = "zip_directory" /\ hist[i].result.ok) =>
            LET pre == hist[i].pre
                dir == absolute_path(hist[i].call.path)
                es == After(i)[absolute_path(hist[i].call.path2)].entries
                source(k) == path_join(dir, parse_path(es[k].name))
            IN \A k \in 1..Len(es) :
                  /\ source(k) # dir /\ IsPrefix(dir, source(k))
                  /\ source(k) \in DOMAIN pre
                  /\ IsRegular(pre[source(k)]) /\ es[k].node = pre[source(k)]

\* The entries of a walk from root that validate_path accepts together with
\* every directory between them and the root.
ValidBelow(f, root) ==
    {e \in walk_dir(f, root) \ {root} :
        \A k \in (Len(root) + 1)..Len(e) :
            validate_path(f, allowed_path, AbsPath(SubSeq(e, 1, k))).ok}

\* C22: search_files with a root that validates succeeds and, without
\* exclude patterns, returns exactly the matching entries that validate and
\* lie below no rejected directory; zip_directory, when its directory and
\* its free target validate, succeeds and stores exactly the matching
\* regular files that validate.
C22_WalksAreGuarded ==
    \A i \in 1..Len(hist) :
        LET c == hist[i].call
            pre == hist[i].pre
        IN /\ (/\ c.op = "search_files" /\ c.exclude = <<>>
               /\ validate_path(pre, allowed_path, c.path).ok) =>
                 /\ hist[i].result.ok
                 /\ hist[i].result.value =
                       {e \in ValidBelow(pre, absolute_path(c.path)) :
                           IncludeMatches(c.pattern, e)}
           /\ (/\ c.op = "zip_directory" /\ ~readonly
               /\ validate_path(pre, allowed_path, c.path).ok
               /\ validate_path(pre, allowed_path, c.path2).ok
               /\ ~exists(pre, absolute_path(c.path2))) =>
                 /\ hist[i].result.ok
                 /\ LET es == After(i)[absolute_path(c.path2)].entries
                        dir == absolute_path(c.path)
                    IN {path_join(dir, parse_path(es[k].name)) : k \in 1..Len(es)} =
                          {e \in walk_dir(pre, dir) \ {dir} :
                              /\ validate_path(pre, allowed_path, AbsPath(e)).ok
                              /\ IsRegular(pre[canonicalize(pre, e).path])
                              /\ glob_matches(Pattern_new(to_lowercase(c.pattern)).tokens,
                                              display(e))}

\* /s was searched for f: the walk met the symlink /s/l to /o and the file
\* /o/f behind it, both rejected, and /s/f alone was returned.
C22_Witness ==
    /\ Len(hist) = 1 /\ hist[1].call.op = "search_files"
    /\ hist[1].call.pattern = <<"f">>
    /\ <<"s", "l", "f">> \in walk_dir(hist[1].pre, <<"s">>)
    /\ ~validate_path(hist[1].pre, allowed_path, AbsPath(<<"s", "l", "f">>)).ok
    /\ hist[1].result.ok /\ hist[1].result.value = {<<"s", "f">>}

\* C23: a call of move_file whose destination exists fails and leaves the
\* source and the destination as they were.
C23_MoveNeverReplaces ==
    \A i \in 1..Len(hist) :
        (/\ hist[i].call.op = "move_file"
         /\ exists(hist[i].pre, absolute_path(hist[i].call.path2))) =>
            (~hist[i].result.ok /\ After(i) = hist[i].pre)

\* C24: the result of directory_tree holds a name/type record for every
\* file and directory at every depth below the given directory.
C24_TreeIsRecursive ==
    \A i \in 1..Len(hist) :
        (hist[i].call.op = "directory_tree" /\ hist[i].result.ok) =>
            LET pre == hist[i].pre
                dir == absolute_path(hist[i].call.path)
            IN \A q \in DOMAIN pre :
                  (IsPrefix(dir, q) /\ q # dir) =>
                     [name |-> Last(q),
                      type |-> IF is_dir(pre, q) THEN "directory" ELSE "file"]
                        \in hist[i].result.value

\* C25: a call of apply_file_edits one of whose path arguments (the file,
\* or the save_to target) validate_path rejects returns the access-denied
\* error and changes nothing.
C25_RejectedPathTouchesNothing ==
    \A i \in 1..Len(hist) :
        (/\ IsEdit(i)
         /\ \/ ~validate_path(hist[i].pre, allowed_path, hist[i].call.path).ok
            \/ /\ hist[i].call.save_to # <<>>
               /\ ~validate_path(hist[i].pre, allowed_path, hist[i].call.save_to[1]).ok) =>
            /\ ~hist[i].result.ok /\ hist[i].result.err = "AccessDenied"
            /\ After(i) = hist[i].pre

\* e1 applied to the content, then e2 to that result, and so on: the
\* content reached, and whether every edit found its old text.
RECURSIVE InOrder(_, _)
InOrder(content, edits) ==
    IF edits = <<>> THEN [ok |-> TRUE, content |-> content]
    ELSE LET r == apply_edit(content, Head(edits)) IN
         IF r.st # "ok" THEN [ok |-> FALSE, content |-> content]
         ELSE InOrder(r.content, Tail(edits))

\* C26: a call of apply_file_edits that is not a dry run succeeds exactly
\* when each edit, taken in list order, finds its old text in the result of
\* the edits before it, and the content it then writes is the result of the
\* last edit; otherwise it fails (with the no-match error, or by the abort
\* of C18).
C26_EditsInListOrder ==
    \A i \in 1..Len(hist) :
        (IsEdit(i) /\ Readable(i) /\ ~IsDryRun(hist[i].call)) =>
            LET r == InOrder(normalize_line_endings(OriginalText(i)), hist[i].call.edits)
            IN /\ hist[i].result.ok = r.ok
               /\ r.ok => normalize_line_endings(WrittenText(i)) = r.content
               /\ ~r.ok => After(i) = hist[i].pre

\* The file held a; the first edit made it c and the second, whose old text
\* c the first edit put there, made it two lines of c.
C26_Witness ==
    /\ Len(hist) = 1 /\ IsEdit(1) /\ ~IsDryRun(hist[1].call) /\ hist[1].result.ok
    /\ OriginalText(1) = <<"a">>
    /\ hist[1].call.edits = <<[old_text |-> <<"a">>, new_text |-> <<"c">>],
                              [old_text |-> <<"c">>, new_text |-> <<"c", LF, "c">>]>>
    /\ ~ExactMatch(OriginalText(1), hist[1].call.edits[2])
    /\ WrittenText(1) = <<"c", LF, "c">>

(***************************************************************************)
(* Two calls of apply_file_edits on /s/f that overlap.  A call reads the   *)
(* file and computes its new content in one step; tokio::fs::write then    *)
(* runs std::fs::write on a blocking thread, which creates (truncates) the *)
(* file and writes the bytes from offset 0 through its own descriptor:     *)
(* two steps that the steps of the other call may come between.            *)
(***************************************************************************)
RaceContents ==
    { <<"a", LF, "b", LF>>, <<"a", CR, LF, "b", CR, LF>>, <<"a", LF, "b">> }

\* One edit of the line `old`; the edits of the two calls touch different lines.
RaceEdits(old) ==
    {<<[old_text |-> <<old>>, new_text |-> n]>> : n \in {<<"c">>, <<"c", LF, "c">>, <<>>}}

RacePath == AbsPath(<<"s", "f">>)

NewTask(edits) == [edits |-> edits, pc |-> "read", data |-> <<>>, result |-> Ok(<<>>)]

InitRace ==
    /\ fs \in {EditFs(c) : c \in RaceContents}
    /\ allowed_path = << <<"s">> >>
    /\ readonly = FALSE
    /\ hist = <<>>
    /\ tasks \in {<<NewTask(e1), NewTask(e2)>> : e1 \in RaceEdits("a"), e2 \in RaceEdits("b")}

RaceCall(t) ==
    [NoArgs EXCEPT !.op = "apply_file_edits", !.path = RacePath, !.edits = tasks[t].edits]

\* The call up to its write: validation, read, the loop over the edits and
\* the diff.  What it returns is what a dry run returns; the bytes it is
\* about to write are the edited content with the detected line ending.
ReadFile(t) ==
    /\ tasks[t].pc = "read"
    /\ \E r \in {apply_file_edits(fs, allowed_path, RacePath, tasks[t].edits,
                                  <<TRUE>>, <<>>).result} :
          IF r.ok
          THEN /\ \E content_str \in {read_to_string(fs, absolute_path(RacePath)).data} :
                    tasks' = [tasks EXCEPT
                        ![t].pc = "open",
                        ![t].result = r,
                        ![t].data = replace(apply_edits(normalize_line_endings(content_str),
                                                        tasks[t].edits, 0).content,
                                            <<LF>>, detect_line_ending(content_str))]
               /\ UNCHANGED hist
          ELSE /\ tasks' = [tasks EXCEPT ![t].pc = "done", ![t].result = r]
               /\ Record(RaceCall(t), r)
    /\ UNCHANGED <<fs, allowed_path, readonly>>

\* std::fs::write, first half: File::create truncates the file.
OpenFile(t) ==
    /\ tasks[t].pc = "open"
    /\ fs' = write(fs, absolute_path(RacePath), FileNode(<<>>)).fs
    /\ tasks' = [tasks EXCEPT ![t].pc = "write"]
    /\ UNCHANGED <<allowed_path, readonly, hist>>

\* std::fs::write, second half: write_all puts the bytes at offset 0 of the
\* file as it is now; bytes another descriptor wrote beyond them stay.
WriteBytes(t) ==
    /\ tasks[t].pc = "write"
    /\ \E cur \in {read_to_string(fs, absolute_path(RacePath)).data} :
          fs' = write(fs, absolute_path(RacePath),
                      FileNode(tasks[t].data
                                 \o SubSeq(cur, Len(tasks[t].data) + 1, Len(cur)))).fs
    /\ tasks' = [tasks EXCEPT ![t].pc = "done"]
    /\ Record(RaceCall(t), tasks[t].result)
    /\ UNCHANGED <<allowed_path, readonly>>

NextRace ==
    \/ \E t \in 1..Len(tasks) : ReadFile(t)
    \/ \E t \in 1..Len(tasks) : OpenFile(t)
    \/ \E t \in 1..Len(tasks) : WriteBytes(t)

SpecRace == InitRace /\ [][NextRace]_vars

\* C27: when both overlapping calls have returned, the file holds the
\* complete content one of them wrote, never parts of both.
C27_NoTornFile ==
    (Len(tasks) = 2 /\ tasks[1].pc = "done" /\ tasks[2].pc = "done") =>
        \E t \in 1..2 :
            /\ tasks[t].result.ok
            /\ read_to_string(fs, absolute_path(RacePath)).data = tasks[t].data

\* C28: after an edit that matched by trimmed lines, the lines before the
\* matched window and the lines after it, a final empty line (the file's
\* last newline) included, are those of the content before the edit.
C28_FuzzyEditIsLocal ==
    \A i \in 1..Len(hist) :
        (FuzzyOnly(i) /\ hist[i].result.ok) =>
            LET ol == split(trim_end(normalize_line_endings(hist[i].call.edits[1].old_text)), LF)
                nl == split(normalize_line_endings(hist[i].call.edits[1].new_text), LF)
                cl == split(trim_end(TextBefore(i)), LF)
                hit(v) == /\ v + Len(ol) - 1 <= Len(cl)
                          /\ \A j \in 1..Len(ol) : trim(ol[j]) = trim(cl[v + j - 1])
                w == CHOOSE v \in 1..Len(cl) : hit(v) /\ \A u \in 1..(v - 1) : ~hit(u)
                before == split(TextBefore(i), LF)
                after == split(TextAfter(i), LF)
            IN /\ SubSeq(after, 1, w - 1) = SubSeq(before, 1, w - 1)
               /\ SubSeq(after, w + Len(nl), Len(after))
                     = SubSeq(before, w + Len(ol), Len(before))

\* A requested absolute path of plain names that is not a root nor below
\* one, while its string begins with the string of a root.
SiblingOfRoot(p) ==
    /\ p.abs /\ \A k \in 1..Len(p.comps) : p.comps[k] \notin {"..", ".", "~", ""}
    /\ ~UnderAnyRoot(p.comps)
    /\ \E r \in 1..Len(allowed_path) : IsPrefix(PathChars(allowed_path[r]), PathChars(p.comps))

\* C29: validate_path refuses a sibling of a root whose string merely
\* begins with the root's string, and the path it accepts is, as
\* normalised, a root or a root followed by further components.
C29_WholeComponents ==
    \A i \in 1..Len(hist) :
        hist[i].call.op = "validate_path" =>
            LET p == hist[i].call.path
                a == absolute_path(p)
                c == canonicalize(hist[i].pre, a)
                n == IF c.ok THEN c.path ELSE a
            IN /\ SiblingOfRoot(p) =>
                     (~hist[i].result.ok /\ hist[i].result.err = "AccessDenied")
               /\ hist[i].result.ok =>
                     \E r \in 1..Len(allowed_path) :
                        \/ IsPrefix(allowed_path[r], n)
                        \/ IsPrefix(canonicalize(hist[i].pre, allowed_path[r]).path, n)

\* With the root /s, the path /sx/f was asked for and refused.
C29_Witness ==
    /\ Len(hist) = 1 /\ hist[1].call.op = "validate_path"
    /\ allowed_path = << <<"s">> >>
    /\ hist[1].call.path = AbsPath(<<"sx", "f">>) /\ SiblingOfRoot(hist[1].call.path)
    /\ ~hist[1].result.ok /\ hist[1].result.err = "AccessDenied"

\* C30: when zip_files or zip_directory returns an error and its target
\* did not exist before the call, the target does not exist afterwards.
C30_FailedZipLeavesNoArchive ==
    \A i \in 1..Len(hist) :
        (/\ hist[i].call.op \in {"zip_files", "zip_directory"}
         /\ ~hist[i].result.ok
         /\ ~exists(hist[i].pre, absolute_path(hist[i].call.path2))) =>
            ~exists(After(i), absolute_path(hist[i].call.path2))

====
